---- MODULE Spec2Model ----
(***************************************************************************)
(* GPS Data Streamer: the capacity-governed ingestion core.                *)
(*                                                                         *)
(* Time is counted in clock ticks, TicksPerSecond ticks to the second.     *)
(* A float field of a fix is an integer in the field's own unit; an        *)
(* Optional value is the empty tuple (None) or a one-element tuple.        *)
(***************************************************************************)
EXTENDS Integers, Sequences, FiniteSets, TLC

\* ------------------------------------------------------------------------
\* Bounds of the model
\* ------------------------------------------------------------------------
MaxRequests == 2
MaxInFlight == 2
MaxTime == 2
MaxTicks == 2
MaxDocs == 5
MaxCreated == 2
BurstSize == 150
MaxSubscribers == 2
TicksPerSecond == 2
\* bytes dbStats.dataSize reports per stored GPS document
RecordBytes == 5242880
MaxBackups == 2
MaxSteps == 2
StepHours == 12

\* ------------------------------------------------------------------------
\* Program constants
\* ------------------------------------------------------------------------
DATABASE_SIZE_LIMIT_BYTES == 104857600
WARNING_THRESHOLD_PCT == 90
EMERGENCY_THRESHOLD_PCT == 95
EMERGENCY_PURGE_PCT == 20
WARNING_PURGE_PCT == 10
MAX_SPEED_KMH == 720
MAX_ACCURACY_M == 10000
MAX_DEVICE_ID_LEN == 50
MAX_PRECISION_DIGITS == 12
FUTURE_LIMIT_HOURS == 1
STALE_LIMIT_DAYS == 7
RATE_LIMIT_AMOUNT == 1
RATE_LIMIT_SECONDS == 1
MONITOR_INTERVAL_S == 300
RETRY_INTERVAL_S == 60
EXPIRATION_HOURS == 24

TicksPerHour == 3600 * TicksPerSecond
TicksPerDay == 24 * TicksPerHour

\* ------------------------------------------------------------------------
\* Optional values
\* ------------------------------------------------------------------------
None == << >>
Some(v) == << v >>
IsNone(o) == o = << >>
Val(o) == o[1]

\* ------------------------------------------------------------------------
\* Fix Validator (models.GPSDataCreate)
\* ------------------------------------------------------------------------
\* A coordinate is [v |-> the float in 1/DegScale degrees,
\*                   dp |-> the digits after the point in str(v)].
DegScale == 10 * 10 * 10
Coord(v, dp) == [v |-> v, dp |-> dp]

\* validator set_timestamp: "v or datetime.utcnow()"
set_timestamp(ts, now) == IF IsNone(ts) THEN Some(now) ELSE ts

\* Field(..., min_length=1, max_length=50)
device_id_ok(d) == Len(d) >= 1 /\ Len(d) <= MAX_DEVICE_ID_LEN

\* the range and precision checks without the Null Island check
latitude_in_range(c) ==
    /\ c.v >= -90 * DegScale /\ c.v <= 90 * DegScale
    /\ c.dp <= MAX_PRECISION_DIGITS

\* Field(ge=-90, le=90) and validate_latitude_precision
validate_latitude_precision(c) ==
    /\ c.v >= -90 * DegScale /\ c.v <= 90 * DegScale
    /\ ~(c.v = 0)
    /\ c.dp <= MAX_PRECISION_DIGITS

\* Field(ge=-180, le=180) and validate_longitude_precision
validate_longitude_precision(c) ==
    /\ c.v >= -180 * DegScale /\ c.v <= 180 * DegScale
    /\ ~(c.v = 0)
    /\ c.dp <= MAX_PRECISION_DIGITS

\* a ceiling that excludes the limit itself
speed_below_ceiling(s) ==
    IsNone(s) \/ (Val(s) >= 0 /\ Val(s) < MAX_SPEED_KMH)

\* Field(ge=0) and validate_speed_reasonableness
validate_speed_reasonableness(s) ==
    IsNone(s) \/ (Val(s) >= 0 /\ ~(Val(s) > MAX_SPEED_KMH))

\* Field(ge=0, le=10000) and validate_accuracy_reasonableness
validate_accuracy_reasonableness(a) ==
    IsNone(a) \/ (Val(a) >= 0 /\ ~(Val(a) > MAX_ACCURACY_M))

\* Field(ge=-1000, le=10000)
altitude_ok(a) == IsNone(a) \/ (Val(a) >= -1000 /\ Val(a) <= 10000)

\* Field(ge=0, lt=360)
heading_ok(h) == IsNone(h) \/ (Val(h) >= 0 /\ Val(h) < 360)

\* validate_timestamp_reasonableness, on the timestamp set_timestamp returned
validate_timestamp_reasonableness(ts, now) ==
    /\ ~(Val(ts) > now + FUTURE_LIMIT_HOURS * TicksPerHour)
    /\ ~(Val(ts) < now - STALE_LIMIT_DAYS * TicksPerDay)

\* Field(max_length=1000) and validate_additional_data (json.loads succeeds)
validate_additional_data(d) == IsNone(d) \/ (Val(d).len <= 1000 /\ Val(d).json)

\* GPSDataCreate(**body) raises no ValidationError at time now
FixValid(fix, now) ==
    /\ device_id_ok(fix.device_id)
    /\ validate_latitude_precision(fix.lattitude)
    /\ validate_longitude_precision(fix.longitude)
    /\ validate_speed_reasonableness(fix.speed)
    /\ altitude_ok(fix.altitude)
    /\ heading_ok(fix.heading)
    /\ validate_accuracy_reasonableness(fix.accuracy)
    /\ validate_timestamp_reasonableness(set_timestamp(fix.timestamp, now), now)
    /\ validate_additional_data(fix.additional_data)

\* the model GPSDataCreate builds from a body that validates
Normalized(fix, now) == [fix EXCEPT !.timestamp = set_timestamp(fix.timestamp, now)]

\* the endpoint's body parameter, left unvalidated (a raw dict)
RequestBodyUnchecked(fix, now) == TRUE

\* receive_gps_data(gps_data: GPSDataCreate): the framework builds the model
\* from the body and answers 422 itself when that raises
RequestBodyValid(fix, now) == FixValid(fix, now)

\* ------------------------------------------------------------------------
\* Inputs
\* ------------------------------------------------------------------------
Addrs == {"10.0.0.1", "10.0.0.2"}

GoodFix(dev, ts) ==
    [device_id |-> dev, lattitude |-> Coord(12971, 3), longitude |-> Coord(77594, 3),
     speed |-> Some(45), altitude |-> Some(920), heading |-> Some(180),
     accuracy |-> Some(5), timestamp |-> ts,
     additional_data |-> Some([len |-> 20, json |-> TRUE])]

\* fixes a client may post at time now: two that validate (one on the
\* boundaries of the speed, accuracy and staleness checks), the rest each
\* breaking one rule
ValidFixes(now) ==
    { GoodFix("d1", None),
      [GoodFix("d2", Some(MaxTime - STALE_LIMIT_DAYS * TicksPerDay))
          EXCEPT !.speed = Some(MAX_SPEED_KMH), !.accuracy = Some(MAX_ACCURACY_M)] }

InvalidFixes(now) ==
    { [GoodFix("d1", None) EXCEPT !.lattitude = Coord(0, 1)],
      [GoodFix("d1", None) EXCEPT !.longitude = Coord(0, 1)],
      [GoodFix("d1", None) EXCEPT !.lattitude = Coord(91 * DegScale, 1)],
      [GoodFix("d1", None) EXCEPT !.speed = Some(MAX_SPEED_KMH + 1)],
      [GoodFix("d1", None) EXCEPT !.speed = Some(-1)],
      [GoodFix("d1", None) EXCEPT !.accuracy = Some(MAX_ACCURACY_M + 1)],
      GoodFix("d1", Some(now + FUTURE_LIMIT_HOURS * TicksPerHour + 1)),
      GoodFix("d1", Some(now - STALE_LIMIT_DAYS * TicksPerDay - 1)),
      GoodFix("", None) }

SampleFixes(now) == ValidFixes(now) \cup InvalidFixes(now)

\* ------------------------------------------------------------------------
\* State
\* ------------------------------------------------------------------------
VARIABLES
    now,            \* the clock, in ticks
    nreq,           \* POST /api/gps/data requests received so far
    reqs,           \* request number -> the request's task
    rate_window,    \* Rate Gate: source key -> times of the admitted requests
    last_decision,  \* history: remote address -> the last Rate Gate decision
    request_times,  \* monitoring.request_times
    gps_data,       \* the gps_data collection
    ws_broadcasts,  \* messages handed to ws_manager.broadcast
    gpc,            \* where the monitoring task is
    ticks,          \* monitor_system_health calls started
    gov,            \* locals of the running monitor_system_health call
    system_stats,   \* the system_stats collection
    burst,          \* history of a client's rapid run of posts
    active_connections, \* ws_manager.active_connections
    sock,           \* websocket -> the connection: peer, queued sends, received
    bcast,          \* request number -> its ws_manager.broadcast call
    calls,          \* history: the broadcast calls in the order they started
    raised,         \* history: exceptions that left the Broadcast Hub
    loop,           \* start_monitoring_task: its sleep, the calls it has running
    backup_dir,     \* the files in backups/
    timers,         \* the _schedule_file_expiration tasks
    creates,        \* call number -> a create_backup call and its result
    sweep,          \* history: the last call of the cleanup endpoint
    download,       \* history: the last GET /api/backup/download/{filename}
    utc_offset,     \* the server's local time minus UTC
    validation,     \* history: the last GPSDataCreate(**body) and its outcome
    other_bytes     \* the data size of the database outside gps_data

hubVars == << active_connections, sock, bcast, calls, raised >>
backupVars == << backup_dir, timers, creates, sweep, download, utc_offset >>

vars == << now, nreq, reqs, rate_window, last_decision, request_times, gps_data,
           ws_broadcasts, gpc, ticks, gov, system_stats, loop, burst, hubVars,
           backupVars, validation, other_bytes >>

ingestVars == << nreq, reqs, rate_window, last_decision, request_times, ws_broadcasts >>
govVars == << gpc, ticks, gov, system_stats, loop >>

\* ------------------------------------------------------------------------
\* Storage Gateway: the gps_data collection
\* ------------------------------------------------------------------------
\* a stored document: GPSDataDocument.model_dump() plus the _id insert_one adds
Document(id, created_at, fix) == [id |-> id, created_at |-> created_at, fix |-> fix]

\* the documents the store already holds when the process starts: n of them,
\* ingested before time 0, one per tick
SmallSeed == 3
SeedCounts == {SmallSeed, 17, 18, 19, 20}
SeedData(n) == { Document(i, i - 1, GoodFix("d1", Some(i - 1))) : i \in (1 - n)..0 }

Ids(docs) == { d.id : d \in docs }

\* database.get_db_size: dbStats.dataSize, of the whole database
get_db_size(docs) == RecordBytes * Cardinality(docs) + other_bytes

\* crud.get_gps_data_count(db)
get_gps_data_count(docs) == Cardinality(docs)

\* ------------------------------------------------------------------------
\* Rate Gate
\* ------------------------------------------------------------------------
\* the limiter keyed by the device the fix names
device_key(addr, fix) == fix.device_id

\* Limiter(key_func=get_remote_address)
get_remote_address(addr, fix) == addr

RateKeys == Addrs \cup {"d1", "d2"}

\* the window after evicting the entries older than the window
Evict(window, t) == { a \in window : t - a < RATE_LIMIT_SECONDS * TicksPerSecond }

\* admit(sourceKey) at time t: allow while the window holds fewer than the limit
LimiterAllows(window, t) == Cardinality(Evict(window, t)) < RATE_LIMIT_AMOUNT

\* the window after the check: an allowed request is added to it
LimiterHit(window, t) ==
    IF LimiterAllows(window, t) THEN Evict(window, t) \cup {t} ELSE Evict(window, t)

\* ------------------------------------------------------------------------
\* Ingestion Coordinator: POST /api/gps/data
\* ------------------------------------------------------------------------
NoBurst == [sent |-> 0, accepted |-> 0, limited |-> 0, addrs |-> {}, devs |-> {}]

\* the last decision for an address, and the one before it
NoDecision == [at |-> -1, allowed |-> FALSE, prev_at |-> -1, prev_allowed |-> FALSE]

NoRequest ==
    [pc |-> "new", addr |-> "", fix |-> GoodFix("", None), status |-> 0,
     decided_at |-> 0, fault |-> FALSE]

InFlight(r) == reqs[r].pc \notin {"new", "responded"}

\* the response is sent and the task ends
Respond(r, code) == [reqs EXCEPT ![r] = [NoRequest EXCEPT !.pc = "responded", !.status = code]]

\* a validation failure answered in place of the rate-limit response
request_validation_error(r) == Respond(r, 422)

\* app.add_exception_handler(RateLimitExceeded, _rate_limit_exceeded_handler)
rate_limit_exceeded_handler(r) == Respond(r, 429)

\* the request arrives and the framework builds GPSDataCreate from its body
Receive(addr, fix) ==
    /\ nreq < MaxRequests
    /\ Cardinality({ r \in 1..MaxRequests : InFlight(r) }) < MaxInFlight
    /\ nreq' = nreq + 1
    /\ LET r == nreq + 1
       IN  IF RequestBodyValid(fix, now)
           THEN reqs' = [reqs EXCEPT ![r].pc = "validated", ![r].addr = addr,
                                     ![r].fix = Normalized(fix, now)]
           ELSE reqs' = Respond(r, 422)
    /\ UNCHANGED << now, rate_window, last_decision, request_times, gps_data, ws_broadcasts >>
    /\ UNCHANGED << govVars, burst, hubVars, backupVars, validation, other_bytes >>

\* @limiter.limit("1/second") wraps the endpoint: the decision, and on allow
\* the handler up to its first await: record_post_request, and GPSDataDocument,
\* whose created_at = datetime.utcnow() is therefore the time of the decision
Admit(r) ==
    /\ reqs[r].pc = "validated"
    /\ LET key == get_remote_address(reqs[r].addr, reqs[r].fix)
           ok == LimiterAllows(rate_window[key], now)
       IN  /\ rate_window' = [rate_window EXCEPT ![key] = LimiterHit(@, now)]
           /\ last_decision' = [last_decision EXCEPT ![reqs[r].addr] =
                                    [at |-> now, allowed |-> ok,
                                     prev_at |-> @.at, prev_allowed |-> @.allowed]]
           /\ IF ok
              THEN /\ reqs' = [reqs EXCEPT ![r].pc = "admitted", ![r].decided_at = now]
                   /\ request_times' = Append(request_times, now)
              ELSE /\ reqs' = rate_limit_exceeded_handler(r)
                   /\ UNCHANGED request_times
    /\ UNCHANGED << now, nreq, gps_data, ws_broadcasts >>
    /\ UNCHANGED << govVars, burst, hubVars, backupVars, validation, other_bytes >>

\* create_gps_data: await db.gps_data.insert_one(doc.model_dump())
InsertOne(r) ==
    /\ reqs[r].pc = "admitted"
    /\ gps_data' = gps_data \cup {Document(r, reqs[r].decided_at, reqs[r].fix)}
    /\ reqs' = [reqs EXCEPT ![r].pc = "inserted"]
    /\ UNCHANGED << now, nreq, rate_window, last_decision, request_times, ws_broadcasts >>
    /\ UNCHANGED << govVars, burst, hubVars, backupVars, validation, other_bytes >>

\* create_gps_data: await db.gps_data.find_one({"_id": result.inserted_id});
\* dict(None) raises when the document is gone, and receive_gps_data answers 500
FindOne(r) ==
    /\ reqs[r].pc = "inserted"
    /\ IF r \in Ids(gps_data)
       THEN reqs' = [reqs EXCEPT ![r].pc = "read"]
       ELSE reqs' = Respond(r, 500)
    /\ UNCHANGED << now, nreq, rate_window, last_decision, request_times, gps_data, ws_broadcasts >>
    /\ UNCHANGED << govVars, burst, hubVars, backupVars, validation, other_bytes >>

\* create_gps_data: await broadcast_gps_update(response), nobody connected
BroadcastUpdate(r) ==
    /\ reqs[r].pc = "read"
    /\ active_connections = << >>
    /\ ws_broadcasts' = ws_broadcasts \cup
          {[type |-> "gps_update", id |-> r, fix |-> reqs[r].fix]}
    /\ reqs' = [reqs EXCEPT ![r].pc = "broadcast"]
    /\ UNCHANGED << now, nreq, rate_window, last_decision, request_times, gps_data >>
    /\ UNCHANGED << govVars, burst, hubVars, backupVars, validation, other_bytes >>

\* receive_gps_data: return stored_data
Return(r) ==
    /\ reqs[r].pc = "broadcast"
    /\ reqs' = Respond(r, 200)
    /\ UNCHANGED << now, nreq, rate_window, last_decision, request_times, gps_data, ws_broadcasts >>
    /\ UNCHANGED << govVars, burst, hubVars, backupVars, validation, other_bytes >>

\* time passes
Clock ==
    /\ now < MaxTime
    /\ now' = now + 1
    /\ UNCHANGED << gps_data >>
    /\ UNCHANGED << ingestVars, burst, hubVars, backupVars >>
    /\ UNCHANGED << govVars, burst, hubVars, backupVars, validation, other_bytes >>

\* ------------------------------------------------------------------------
\* Storage Gateway: delete_oldest_records
\* ------------------------------------------------------------------------
\* the count rounded up instead of truncated
DeleteCountRoundUp(total_count, percentage) == (total_count * percentage + 99) \div 100

\* delete_count = int(total_count * percentage / 100)
DeleteCount(total_count, percentage) == (total_count * percentage) \div 100

\* the created_at of the k-th oldest document (1 <= k <= number of documents)
KthCreatedAt(docs, k) ==
    CHOOSE c \in { d.created_at : d \in docs } :
        /\ Cardinality({ d \in docs : d.created_at < c }) < k
        /\ Cardinality({ d \in docs : d.created_at <= c }) >= k

\* the sort descending: the k newest documents
NewestIds(docs, k) ==
    { Ids(u) : u \in { v \in SUBSET docs :
                        /\ Cardinality(v) = IF k >= Cardinality(docs) THEN Cardinality(docs) ELSE k
                        /\ \A x \in v : \A y \in docs \ v : x.created_at >= y.created_at } }

\* find({}, {"_id": 1}).sort("created_at", ASCENDING).limit(k): the id lists
\* the store may return (documents with equal created_at come in any order)
OldestIds(docs, k) ==
    IF k >= Cardinality(docs) THEN { Ids(docs) }
    ELSE LET c == KthCreatedAt(docs, k)
             older == { d \in docs : d.created_at < c }
             ties == { d \in docs : d.created_at = c }
         IN  { Ids(older \cup t) :
                 t \in { u \in SUBSET ties : Cardinality(u) = k - Cardinality(older) } }

\* the delete re-evaluated when it runs: the oldest documents of that moment
DeleteOldestNow(docs, ids) ==
    LET k == Cardinality(ids)
    IN  IF k = 0 THEN docs
        ELSE { d \in docs : d.id \notin (CHOOSE s \in OldestIds(docs, k) : TRUE) }

\* delete_many({"_id": {"$in": ids_to_delete}}): what is left
DeleteMany(docs, ids) == { d \in docs : d.id \notin ids }

\* ------------------------------------------------------------------------
\* Capacity Governor: monitoring.monitor_system_health
\* ------------------------------------------------------------------------
BytesPerPercent == DATABASE_SIZE_LIMIT_BYTES \div 100

\* usage_percentage >= pct, for usage_percentage = size / limit * 100
UsageAtLeast(size, pct) == size >= pct * BytesPerPercent

\* the thresholds with the warning tier starting at 85%
purge_percentage_early(size) ==
    IF UsageAtLeast(size, EMERGENCY_THRESHOLD_PCT) THEN WARNING_PURGE_PCT
    ELSE IF UsageAtLeast(size, WARNING_THRESHOLD_PCT - 5) THEN WARNING_PURGE_PCT
    ELSE 0

\* the percentage the tick passes to delete_oldest_records (0: no purge)
purge_percentage(size) ==
    IF UsageAtLeast(size, EMERGENCY_THRESHOLD_PCT) THEN EMERGENCY_PURGE_PCT
    ELSE IF UsageAtLeast(size, WARNING_THRESHOLD_PCT) THEN WARNING_PURGE_PCT
    ELSE 0

GovIdle ==
    [db_size_bytes |-> -1, total_records |-> -1, percentage |-> -1,
     total_count |-> -1, delete_count |-> -1, ids_to_delete |-> {},
     deleted_count |-> 0,
     \* history of the call, for the properties
     first_size |-> -1, seen |-> {}, removed |-> {}, backups |-> 0,
     faulted |-> FALSE, raised |-> FALSE]

\* start_monitoring_task, before lifespan has created its task and while the
\* task sleeps: the sleep it is in (0: none yet), the monitor_system_health
\* calls that have not returned, and the calls in which an exception reached
\* monitor_system_health's handler
LoopStarted == [interval |-> 0, running |-> 0, failed_ticks |-> 0]

\* a new call started whenever the period is over, the one before finished or not
LoopNotAwaiting == TRUE

\* start_monitoring_task: 'await monitor_system_health()' and then the sleep;
\* the task is in its sleep only when the call before has returned
LoopSleeping == gpc = "sleep"

\* start_monitoring_task: the loop calls monitor_system_health
TickStart ==
    /\ LoopSleeping
    /\ ticks < MaxTicks
    /\ ticks' = ticks + 1
    /\ loop' = [loop EXCEPT !.running = @ + 1]
    /\ gov' = GovIdle
    /\ gpc' = "size"
    /\ UNCHANGED << now, gps_data, system_stats >>
    /\ UNCHANGED << ingestVars, burst, hubVars, backupVars, validation, other_bytes >>

\* db_size_bytes = await get_db_size()
ReadSize ==
    /\ gpc = "size"
    /\ gov' = [gov EXCEPT !.db_size_bytes = get_db_size(gps_data),
                          !.first_size = get_db_size(gps_data)]
    /\ gpc' = "count"
    /\ UNCHANGED << now, gps_data, system_stats, ticks >>
    /\ UNCHANGED << ingestVars, burst, hubVars, backupVars, loop, validation, other_bytes >>

\* total_records = await get_gps_data_count(db), then the threshold decision
ReadCount ==
    /\ gpc = "count"
    /\ LET pct == purge_percentage(gov.db_size_bytes)
       IN  /\ gov' = [gov EXCEPT !.total_records = get_gps_data_count(gps_data),
                                 !.percentage = pct]
           /\ gpc' = IF pct > 0 THEN "del_count" ELSE "stats"
    /\ UNCHANGED << now, gps_data, system_stats, ticks >>
    /\ UNCHANGED << ingestVars, burst, hubVars, backupVars, loop, validation, other_bytes >>

\* delete_oldest_records: total_count = await get_gps_data_count(db)
DelCount ==
    /\ gpc = "del_count"
    /\ LET n == get_gps_data_count(gps_data)
           k == DeleteCount(n, gov.percentage)
       IN  /\ gov' = [gov EXCEPT !.total_count = n, !.delete_count = k]
           /\ gpc' = IF k = 0 THEN "stats" ELSE "del_select"
    /\ UNCHANGED << now, gps_data, system_stats, ticks >>
    /\ UNCHANGED << ingestVars, burst, hubVars, backupVars, loop, validation, other_bytes >>

\* delete_oldest_records: ids_to_delete = [doc["_id"] async for doc in cursor]
DelSelect ==
    /\ gpc = "del_select"
    /\ \E ids \in OldestIds(gps_data, gov.delete_count) :
          /\ gov' = [gov EXCEPT !.ids_to_delete = ids, !.seen = gps_data]
          /\ gpc' = IF ids = {} THEN "stats" ELSE "del_delete"
    /\ UNCHANGED << now, gps_data, system_stats, ticks >>
    /\ UNCHANGED << ingestVars, burst, hubVars, backupVars, loop, validation, other_bytes >>

\* delete_oldest_records: result = await db.gps_data.delete_many(...)
DelDelete ==
    /\ gpc = "del_delete"
    /\ gps_data' = DeleteMany(gps_data, gov.ids_to_delete)
    /\ gov' = [gov EXCEPT !.deleted_count = Cardinality(gps_data) - Cardinality(gps_data'),
                          !.removed = gps_data \ gps_data']
    /\ gpc' = IF Cardinality(gps_data) - Cardinality(gps_data') > 0
              THEN "post_size" ELSE "stats"
    /\ UNCHANGED << now, system_stats, ticks >>
    /\ UNCHANGED << ingestVars, burst, hubVars, backupVars, loop, validation, other_bytes >>

\* after a purge: db_size_bytes = await get_db_size()
PostSize ==
    /\ gpc = "post_size"
    /\ gov' = [gov EXCEPT !.db_size_bytes = get_db_size(gps_data)]
    /\ gpc' = "post_count"
    /\ UNCHANGED << now, gps_data, system_stats, ticks >>
    /\ UNCHANGED << ingestVars, burst, hubVars, backupVars, loop, validation, other_bytes >>

\* the count of before the purge kept
PostCountStale ==
    /\ gpc = "post_count"
    /\ gpc' = "stats"
    /\ UNCHANGED << now, gps_data, system_stats, ticks, gov >>
    /\ UNCHANGED << ingestVars, burst, hubVars, backupVars, loop, validation, other_bytes >>

\* after a purge: total_records = await get_gps_data_count(db)
PostCount ==
    /\ gpc = "post_count"
    /\ gov' = [gov EXCEPT !.total_records = get_gps_data_count(gps_data)]
    /\ gpc' = "stats"
    /\ UNCHANGED << now, gps_data, system_stats, ticks >>
    /\ UNCHANGED << ingestVars, burst, hubVars, backupVars, loop, validation, other_bytes >>

\* request_times after cleanup_old_request_data
cleanup_old_request_data(times, t) ==
    SelectSeq(times, LAMBDA x : x > t - TicksPerHour)

\* await create_system_stats(...), cleanup_old_request_data(), and the call
\* returns to the loop's sleep
CreateStats ==
    /\ gpc = "stats"
    /\ system_stats' = Append(system_stats,
          [total_gps_records |-> gov.total_records,
           database_size_bytes |-> gov.db_size_bytes])
    /\ request_times' = cleanup_old_request_data(request_times, now)
    /\ gpc' = "sleep"
    /\ loop' = [loop EXCEPT !.running = @ - 1, !.interval = MONITOR_INTERVAL_S]
    /\ UNCHANGED << now, gps_data, ticks, gov >>
    /\ UNCHANGED << nreq, reqs, rate_window, last_decision, ws_broadcasts, burst, hubVars >>
    /\ UNCHANGED << backupVars, validation, other_bytes >>

\* ------------------------------------------------------------------------
\* Broadcast Hub: websocket_manager.WebSocketManager
\* ------------------------------------------------------------------------
Sockets == 1..MaxSubscribers

WelcomeMsg == [type |-> "connection_established", id |-> 0]
UpdateMsg(r) == [type |-> "gps_update", id |-> r]

\* a websocket: its peer ("none" before the handshake, "open", "gone" once the
\* client went away), the sends queued on it in the order send_text was
\* called, what the client received, the number of broadcast calls started
\* before it was registered, whether connect() is still running, and what
\* websocket_endpoint's disconnect found: "no" while it has not run, then
\* "removed" or, the websocket being off the list already, "absent"; and
\* whether the send of its welcome message failed
NoSocket ==
    [peer |-> "none", pending |-> << >>, inbox |-> << >>, joined |-> 0,
     in_connect |-> FALSE, handled |-> "no", welcome_failed |-> FALSE]

\* the locals of a broadcast call, the websockets its sends failed on, and
\* the list as it was when the call started
NoBroadcast ==
    [pc |-> "idle", copy |-> << >>, i |-> 0, connections_to_remove |-> << >>,
     successful_sends |-> 0, failed |-> {}, registered |-> << >>]

HubStarted ==
    /\ active_connections = << >>
    /\ sock = [s \in Sockets |-> NoSocket]
    /\ bcast = [r \in 1..MaxRequests |-> NoBroadcast]
    /\ calls = << >>
    /\ raised = {}

InList(conns, ws) == \E k \in DOMAIN conns : conns[k] = ws

\* list.remove(ws)
Remove(conns, ws) == SelectSeq(conns, LAMBDA x : x # ws)

\* the removal without the membership test: list.remove raises ValueError
disconnect_unguarded(conns, ws) ==
    [conns |-> Remove(conns, ws), raised |-> ~InList(conns, ws)]

\* WebSocketManager.disconnect(websocket): the list afterwards, and whether
\* the call raised
disconnect(conns, ws) ==
    [conns |-> IF InList(conns, ws) THEN Remove(conns, ws) ELSE conns, raised |-> FALSE]

\* the failed connections left in the list
KeepFailed(conns, to_remove) == [conns |-> conns, raised |-> FALSE]

\* broadcast: for websocket in connections_to_remove: self.disconnect(websocket)
RECURSIVE DisconnectFailed(_, _)
DisconnectFailed(conns, to_remove) ==
    IF to_remove = << >> THEN [conns |-> conns, raised |-> FALSE]
    ELSE LET d == disconnect(conns, Head(to_remove))
             rest == DisconnectFailed(d.conns, Tail(to_remove))
         IN  [conns |-> rest.conns, raised |-> d.raised \/ rest.raised]

\* how a send can end: received by the client, accepted by the transport of a
\* client that is gone, timed out (wait_for, 5 seconds), or refused because
\* the transport is closed
SendOutcomes(peer) ==
    IF peer = "open" THEN {"delivered", "timeout"} ELSE {"lost", "timeout", "closed"}

SendFailed(outcome) == outcome \in {"timeout", "closed"}

\* the loop over the list itself
LiveList(copy, conns) == conns

\* broadcast: for websocket in self.active_connections.copy()
LoopList(copy, conns) == copy

\* a handler for the timeout alone
CatchesTimeoutOnly(outcome) == outcome = "timeout"

\* broadcast: except Exception around _send_to_connection
BroadcastCatches(outcome) == TRUE

\* websocket_endpoint: await ws_manager.connect(websocket) up to the send of
\* the welcome message; the websockets are numbered in the order they connect
Connect(s) ==
    /\ sock[s].peer = "none"
    /\ \A t \in Sockets : t < s => sock[t].peer # "none"
    /\ active_connections' = Append(active_connections, s)
    /\ sock' = [sock EXCEPT ![s] = [@ EXCEPT !.peer = "open", !.pending = << WelcomeMsg >>,
                                             !.joined = Len(calls), !.in_connect = TRUE]]
    /\ UNCHANGED << bcast, calls, raised >>
    /\ UNCHANGED << now, gps_data, burst, backupVars >>
    /\ UNCHANGED << ingestVars, govVars, validation, other_bytes >>

\* connect: the welcome send ends; a failure is caught in connect, which
\* takes the websocket off the list
WelcomeResolve(s, outcome) ==
    /\ sock[s].in_connect
    /\ sock[s].pending # << >> /\ Head(sock[s].pending) = WelcomeMsg
    /\ outcome \in SendOutcomes(sock[s].peer)
    /\ sock' = [sock EXCEPT ![s] =
                  [@ EXCEPT !.pending = Tail(@), !.in_connect = FALSE,
                            !.welcome_failed = SendFailed(outcome),
                            !.inbox = IF outcome = "delivered" THEN Append(@, WelcomeMsg) ELSE @]]
    /\ active_connections' =
          IF SendFailed(outcome) THEN Remove(active_connections, s) ELSE active_connections
    /\ UNCHANGED << bcast, calls, raised >>
    /\ UNCHANGED << now, gps_data, burst, backupVars >>
    /\ UNCHANGED << ingestVars, govVars, validation, other_bytes >>

\* the client goes away
PeerClose(s) ==
    /\ sock[s].peer = "open"
    /\ sock' = [sock EXCEPT ![s].peer = "gone"]
    /\ UNCHANGED << active_connections, bcast, calls, raised >>
    /\ UNCHANGED << now, gps_data, burst, backupVars >>
    /\ UNCHANGED << ingestVars, govVars, validation, other_bytes >>

\* websocket_endpoint: receive_text raises WebSocketDisconnect, and the
\* handler calls ws_manager.disconnect(websocket)
EndpointDisconnect(s) ==
    /\ sock[s].peer = "gone" /\ ~sock[s].in_connect /\ sock[s].handled = "no"
    /\ LET d == disconnect(active_connections, s)
       IN  /\ active_connections' = d.conns
           /\ raised' = IF d.raised THEN raised \cup {[at |-> "endpoint", ws |-> s]} ELSE raised
    /\ sock' = [sock EXCEPT ![s].handled =
                    IF InList(active_connections, s) THEN "removed" ELSE "absent"]
    /\ UNCHANGED << bcast, calls >>
    /\ UNCHANGED << now, gps_data, burst, backupVars >>
    /\ UNCHANGED << ingestVars, govVars, validation, other_bytes >>

\* create_gps_data: await broadcast_gps_update(response) with somebody
\* connected: broadcast copies the list and calls the first send; the requests
\* are numbered in the order they get here
BroadcastStart(r) ==
    /\ reqs[r].pc = "read"
    /\ \A q \in 1..MaxRequests : q < r => reqs[q].pc # "read"
    /\ active_connections # << >>
    /\ calls' = Append(calls, r)
    /\ ws_broadcasts' = ws_broadcasts \cup
          {[type |-> "gps_update", id |-> r, fix |-> reqs[r].fix]}
    /\ bcast' = [bcast EXCEPT ![r] = [NoBroadcast EXCEPT !.pc = "sending",
                                                        !.copy = active_connections, !.i = 1,
                                                        !.registered = active_connections]]
    /\ sock' = [sock EXCEPT ![active_connections[1]].pending = Append(@, UpdateMsg(r))]
    /\ reqs' = [reqs EXCEPT ![r].pc = "broadcasting"]
    /\ UNCHANGED << active_connections, raised >>
    /\ UNCHANGED << now, nreq, rate_window, last_decision, request_times, gps_data, burst >>
    /\ UNCHANGED << govVars, backupVars, validation, other_bytes >>

\* broadcast: the awaited send ends, and the loop runs on to its next await:
\* the next send, or past the clean-up to the return of broadcast, of
\* broadcast_gps_update, of create_gps_data and of receive_gps_data. An
\* exception broadcast does not catch is caught by crud.broadcast_gps_update
SendResolve(r, outcome) ==
    /\ bcast[r].pc = "sending"
    /\ LET b == bcast[r]
           s == b.copy[b.i]
           list == LoopList(b.copy, active_connections)
           caught == BroadcastCatches(outcome)
           b1 == [b EXCEPT !.successful_sends = IF SendFailed(outcome) THEN @ ELSE @ + 1,
                           !.connections_to_remove =
                               IF SendFailed(outcome) /\ caught THEN Append(@, s) ELSE @,
                           !.failed = IF SendFailed(outcome) THEN @ \cup {s} ELSE @]
           popped == [sock EXCEPT ![s] =
                        [@ EXCEPT !.pending = Tail(@),
                                  !.inbox = IF outcome = "delivered"
                                            THEN Append(@, UpdateMsg(r)) ELSE @]]
           d == DisconnectFailed(active_connections, b1.connections_to_remove)
       IN  /\ sock[s].pending # << >> /\ Head(sock[s].pending) = UpdateMsg(r)
           /\ outcome \in SendOutcomes(sock[s].peer)
           /\ IF SendFailed(outcome) /\ ~caught
              THEN /\ bcast' = [bcast EXCEPT ![r] = [b1 EXCEPT !.pc = "done"]]
                   /\ sock' = popped
                   /\ raised' = raised \cup {[at |-> "broadcast", ws |-> s]}
                   /\ reqs' = Respond(r, 200)
                   /\ UNCHANGED active_connections
              ELSE IF b.i < Len(list)
              THEN /\ bcast' = [bcast EXCEPT ![r] = [b1 EXCEPT !.i = @ + 1,
                                                               !.copy = SubSeq(@, 1, b.i) \o
                                                                   SubSeq(list, b.i + 1, Len(list))]]
                   /\ sock' = [popped EXCEPT ![list[b.i + 1]].pending =
                                                Append(@, UpdateMsg(r))]
                   /\ UNCHANGED << active_connections, raised, reqs >>
              ELSE /\ bcast' = [bcast EXCEPT ![r] = [b1 EXCEPT !.pc = "done"]]
                   /\ sock' = popped
                   /\ active_connections' = d.conns
                   /\ raised' = IF d.raised
                                THEN raised \cup {[at |-> "broadcast", ws |-> s]} ELSE raised
                   /\ reqs' = Respond(r, 200)
    /\ UNCHANGED << calls, ws_broadcasts >>
    /\ UNCHANGED << now, nreq, rate_window, last_decision, request_times, gps_data, burst >>
    /\ UNCHANGED << govVars, backupVars, validation, other_bytes >>

\* ------------------------------------------------------------------------
\* Storage failures: an operation on the store raises
\* ------------------------------------------------------------------------
\* the failure answered as a validation error, by the 'except ValueError' branch
store_failed_as_invalid(r) == [Respond(r, 422) EXCEPT ![r].fault = TRUE]

\* receive_gps_data: create_gps_data logs and re-raises, 'except Exception'
\* answers 500 "Failed to store GPS data"
store_failed(r) == [Respond(r, 500) EXCEPT ![r].fault = TRUE]

\* create_gps_data: insert_one raises, the document written or not
InsertOneFails(r, applied) ==
    /\ reqs[r].pc = "admitted"
    /\ gps_data' = IF applied
                   THEN gps_data \cup {Document(r, reqs[r].decided_at, reqs[r].fix)}
                   ELSE gps_data
    /\ reqs' = store_failed(r)
    /\ UNCHANGED << now, nreq, rate_window, last_decision, request_times, ws_broadcasts >>
    /\ UNCHANGED << govVars, burst, hubVars, backupVars, validation, other_bytes >>

\* create_gps_data: find_one raises
FindOneFails(r) ==
    /\ reqs[r].pc = "inserted"
    /\ reqs' = store_failed(r)
    /\ UNCHANGED << now, nreq, rate_window, last_decision, request_times, gps_data, ws_broadcasts >>
    /\ UNCHANGED << govVars, burst, hubVars, backupVars, validation, other_bytes >>

\* get_db_size: dbStats raises, the function logs and returns 0
ReadSizeFails ==
    /\ gpc = "size"
    /\ gov' = [gov EXCEPT !.db_size_bytes = 0, !.first_size = 0, !.faulted = TRUE]
    /\ gpc' = "count"
    /\ UNCHANGED << now, gps_data, system_stats, ticks >>
    /\ UNCHANGED << ingestVars, burst, hubVars, backupVars, loop, validation, other_bytes >>

\* get_gps_data_count: count_documents raises, the function logs and returns 0
ReadCountFails ==
    /\ gpc = "count"
    /\ LET pct == purge_percentage(gov.db_size_bytes)
       IN  /\ gov' = [gov EXCEPT !.total_records = 0, !.percentage = pct,
                                 !.faulted = TRUE]
           /\ gpc' = IF pct > 0 THEN "del_count" ELSE "stats"
    /\ UNCHANGED << now, gps_data, system_stats, ticks >>
    /\ UNCHANGED << ingestVars, burst, hubVars, backupVars, loop, validation, other_bytes >>

\* delete_oldest_records: its count returns 0, or its find or delete_many
\* raises; it logs and returns 0
DeleteFails ==
    /\ gpc \in {"del_count", "del_select", "del_delete"}
    /\ gov' = [gov EXCEPT !.deleted_count = 0, !.faulted = TRUE]
    /\ gpc' = "stats"
    /\ UNCHANGED << now, gps_data, system_stats, ticks >>
    /\ UNCHANGED << ingestVars, burst, hubVars, backupVars, loop, validation, other_bytes >>

\* the readings after a purge: either returns 0 on a failure
PostReadFails ==
    /\ gpc \in {"post_size", "post_count"}
    /\ gov' = IF gpc = "post_size"
              THEN [gov EXCEPT !.db_size_bytes = 0, !.faulted = TRUE]
              ELSE [gov EXCEPT !.total_records = 0, !.faulted = TRUE]
    /\ gpc' = IF gpc = "post_size" THEN "post_count" ELSE "stats"
    /\ UNCHANGED << now, gps_data, system_stats, ticks >>
    /\ UNCHANGED << ingestVars, burst, hubVars, backupVars, loop, validation, other_bytes >>

\* create_system_stats raises (the snapshot inserted or not) and re-raises;
\* monitor_system_health's 'except Exception' logs, the call returns without
\* cleanup_old_request_data, and the loop goes on to its asyncio.sleep(300).
\* No exception leaves monitor_system_health, so the loop's own handler and
\* its asyncio.sleep(60) are never entered
CreateStatsFails(stored) ==
    /\ gpc = "stats"
    /\ system_stats' = IF stored
                       THEN Append(system_stats,
                               [total_gps_records |-> gov.total_records,
                                database_size_bytes |-> gov.db_size_bytes])
                       ELSE system_stats
    /\ gov' = [gov EXCEPT !.faulted = TRUE, !.raised = TRUE]
    /\ gpc' = "sleep"
    /\ loop' = [loop EXCEPT !.running = @ - 1, !.interval = MONITOR_INTERVAL_S,
                            !.failed_ticks = @ + 1]
    /\ UNCHANGED << now, gps_data, ticks >>
    /\ UNCHANGED << ingestVars, burst, hubVars, backupVars, validation, other_bytes >>

\* ------------------------------------------------------------------------
\* Snapshot Exporter: backup_manager.BackupManager
\* ------------------------------------------------------------------------
\* time in this part moves in steps of StepHours hours
StepTicks == StepHours * TicksPerHour
ExpirationTicks == EXPIRATION_HOURS * TicksPerHour

\* the offsets of local time against UTC a server may run with
UtcOffsets == {0 - StepTicks, 0, StepTicks}

\* a file name is a sequence of pieces of text: "gps_backup_", a timestamp,
\* ".json", ".csv", ".txt", "/", "\\", "..", "x", "x."
Suffix(format) ==
    IF format = "json" THEN ".json" ELSE IF format = "csv" THEN ".csv" ELSE ".txt"

\* ".." in filename: a piece that is "..", or a piece ending in a dot before
\* one that starts with a dot
ContainsDotDot(name) ==
    \/ \E i \in 1..Len(name) : name[i] = ".."
    \/ \E i \in 1..(Len(name) - 1) :
          name[i] \in {"..", "x."} /\ name[i + 1] \in {"..", ".json", ".csv", ".txt"}

\* filename.startswith("gps_backup_")
StartsWithPrefix(name) == Len(name) >= 1 /\ name[1] = "gps_backup_"

\* filename.endswith(".json") or filename.endswith(".csv")
EndsWithJsonOrCsv(name) == Len(name) >= 1 /\ name[Len(name)] \in {".json", ".csv"}

\* create_backup: f"gps_backup_{timestamp}.{format}", the timestamp to the second
backup_filename(t, format) ==
    << "gps_backup_", ToString(t \div TicksPerSecond), Suffix(format) >>

\* _serialize_gps_record(record); [iso |-> t] is t.isoformat()
serialize_gps_record(doc) ==
    [id |-> doc.id, device_id |-> doc.fix.device_id,
     latitude |-> doc.fix.lattitude, longitude |-> doc.fix.longitude,
     speed |-> doc.fix.speed, altitude |-> doc.fix.altitude,
     heading |-> doc.fix.heading, accuracy |-> doc.fix.accuracy,
     timestamp |-> [iso |-> doc.fix.timestamp],
     created_at |-> [iso |-> doc.created_at],
     additional_data |-> doc.fix.additional_data]

\* the inverse of _serialize_gps_record: a row of a backup read back into the
\* document it was written from
deserialize_gps_record(row) ==
    Document(row.id, row.created_at.iso,
        [device_id |-> row.device_id,
         lattitude |-> row.latitude, longitude |-> row.longitude,
         speed |-> row.speed, altitude |-> row.altitude,
         heading |-> row.heading, accuracy |-> row.accuracy,
         timestamp |-> row.timestamp.iso,
         additional_data |-> row.additional_data])

\* the documents in the order of find({}).sort("timestamp", ASCENDING)
RECURSIVE SortedByTimestamp(_)
SortedByTimestamp(docs) ==
    IF docs = {} THEN << >>
    ELSE LET first == CHOOSE d \in docs : \A e \in docs :
                         \/ Val(d.fix.timestamp) < Val(e.fix.timestamp)
                         \/ /\ Val(d.fix.timestamp) = Val(e.fix.timestamp)
                            /\ d.id <= e.id
         IN  << first >> \o SortedByTimestamp(docs \ {first})

\* crud.get_all_gps_data_for_export(db): every document, or [] when the read
\* raised
get_all_gps_data_for_export(docs, read_ok) ==
    IF read_ok THEN SortedByTimestamp(docs) ELSE << >>

\* _generate_backup_metadata(record_count)
generate_backup_metadata(record_count) == [total_records |-> record_count]

\* the file _write_json_backup or _write_csv_backup leaves: the csv file has
\* the rows and no metadata
backup_metadata(format, records) ==
    IF format = "json" THEN generate_backup_metadata(Len(records))
    ELSE [total_records |-> -1]

\* a file of backups/: its name, st_ctime, whether the write ran to its end,
\* and what was written
BackupFile(name, ctime, format, complete, metadata, data) ==
    [name |-> name, ctime |-> ctime, format |-> format, complete |-> complete,
     metadata |-> metadata, data |-> data]

Names(dir) == { f.name : f \in dir }

\* open(filepath, 'w') and the dump: the file at the path is replaced
WriteFile(dir, file) == { f \in dir : f.name # file.name } \cup {file}

\* _get_file_info: created_at = datetime.fromtimestamp(stat.st_ctime) is local
\* time, expires_at = created_at + 24 h, is_expired = datetime.utcnow() > expires_at
is_expired(f, t, offset) == t > f.ctime + offset + ExpirationTicks

\* the backup is older than the time to live
OlderThanTTL(f, t) == t - f.ctime > ExpirationTicks

\* get_backup_files(): the files the two globs match
get_backup_files(dir) ==
    { f \in dir : StartsWithPrefix(f.name) /\ EndsWithJsonOrCsv(f.name) }

\* the path check without the test for separators and parent references
get_backup_file_path_unguarded(name) ==
    [ok |-> StartsWithPrefix(name) /\ EndsWithJsonOrCsv(name), path |-> name]

\* get_backup_file_path(filename): ok is FALSE where it raises ValueError
get_backup_file_path(name) ==
    [ok |-> /\ StartsWithPrefix(name)
            /\ EndsWithJsonOrCsv(name)
            /\ ~ContainsDotDot(name)
            /\ \A i \in 1..Len(name) : name[i] \notin {"/", "\\"},
     path |-> name]

\* a file outside backups/ that a path with separators reaches
OutsideFiles == { << "gps_backup_", "/", "..", "/", "x", ".json" >> }

\* Path.exists() of backup_dir / name
Exists(dir, name) == name \in Names(dir) \/ name \in OutsideFiles

\* a call of create_backup: idle, or waiting for the read of the store, or
\* over, with what the caller got
NoCreate ==
    [pc |-> "idle", caller |-> "", format |-> "", name |-> << >>,
     seen |-> {}, write |-> "", read_ok |-> TRUE, status |-> 0, returned |-> ""]

\* no call yet. The expiration task of a call is not started ("none"),
\* sleeping until due, or over: "deleted", "skipped" (nothing to delete) or
\* "error" (an exception logged). Of the cleanup endpoint the last call is
\* kept: its time, the files it removed, the count it answered, and whether
\* the calls so far are odd or even in number
ExporterStarted ==
    /\ timers = [c \in 1..MaxBackups |-> [state |-> "none", path |-> << >>, due |-> 0]]
    /\ creates = [c \in 1..MaxBackups |-> NoCreate]
    /\ sweep = [at |-> -1, removed |-> -1, files_removed |-> -1, odd |-> FALSE]
    /\ download = [name |-> << >>, status |-> 0, resolved |-> FALSE, served |-> << >>]

\* the call number of the next create_backup
NextCreate == Cardinality({ c \in 1..MaxBackups : creates[c].pc # "idle" }) + 1

\* create_backup up to 'await get_all_gps_data_for_export(db)': the file name
\* is fixed from the clock
StartCreate(caller, format) ==
    /\ NextCreate <= MaxBackups
    /\ creates' = [creates EXCEPT ![NextCreate] =
          [NoCreate EXCEPT !.pc = "reading", !.caller = caller, !.format = format,
                           !.name = backup_filename(now, format)]]
    /\ UNCHANGED << backup_dir, timers, sweep, download, utc_offset >>
    /\ UNCHANGED << now, gps_data, ingestVars, govVars, burst, hubVars, validation, other_bytes >>

\* POST /api/backup/create?format=...: the Query pattern ^(json|csv)$ answers
\* 422 for any other format before the handler runs
create_backup_manual(format) ==
    IF format \in {"json", "csv"}
    THEN StartCreate("manual", format)
    ELSE /\ NextCreate <= MaxBackups
         /\ creates' = [creates EXCEPT ![NextCreate] =
               [NoCreate EXCEPT !.pc = "done", !.caller = "manual",
                                !.format = format, !.status = 422]]
         /\ UNCHANGED << backup_dir, timers, sweep, download, utc_offset >>
         /\ UNCHANGED << now, gps_data, ingestVars, govVars, burst, hubVars, validation, other_bytes >>

\* create_automatic_backup(): create_backup("json")
create_automatic_backup == StartCreate("auto", "json")

\* create_backup returned the file name: create_backup_manual answers 200
\* with it, create_automatic_backup returns it
backup_created(call) ==
    IF call.caller = "manual"
    THEN [call EXCEPT !.pc = "done", !.status = 200, !.returned = "filename"]
    ELSE [call EXCEPT !.pc = "done", !.returned = "filename"]

\* the exception of create_backup swallowed, the file name returned all the same
backup_failure_unreported(call) ==
    IF call.caller = "manual"
    THEN [call EXCEPT !.pc = "done", !.status = 200, !.returned = "filename"]
    ELSE [call EXCEPT !.pc = "done", !.returned = "filename"]

\* create_backup raised: create_backup_manual answers 500, and
\* create_automatic_backup returns None
backup_failed(call) ==
    IF call.caller = "manual"
    THEN [call EXCEPT !.pc = "done", !.status = 500, !.returned = "error"]
    ELSE [call EXCEPT !.pc = "done", !.returned = "None"]

\* create_backup from the end of the read to its return, no await in between:
\* the content is built and written, the expiration task is created. The
\* write fails before the file exists ("open_failed") or half way, the file
\* left as far as it was written ("write_failed")
FinishCreate(c, read_ok, write) ==
    /\ creates[c].pc = "reading"
    /\ LET call == creates[c]
           records == get_all_gps_data_for_export(gps_data, read_ok)
           data == [i \in 1..Len(records) |-> serialize_gps_record(records[i])]
           file == BackupFile(call.name, now, call.format, TRUE,
                              backup_metadata(call.format, data), data)
           torn == BackupFile(call.name, now, call.format, FALSE,
                              [total_records |-> -1], << >>)
           noted == [call EXCEPT !.seen = gps_data, !.write = write, !.read_ok = read_ok]
       IN  CASE write = "written" ->
                  /\ backup_dir' = WriteFile(backup_dir, file)
                  /\ timers' = [timers EXCEPT ![c] =
                        [state |-> "sleeping", path |-> call.name,
                         due |-> now + ExpirationTicks]]
                  /\ creates' = [creates EXCEPT ![c] = backup_created(noted)]
             [] write = "open_failed" ->
                  /\ creates' = [creates EXCEPT ![c] = backup_failed(noted)]
                  /\ UNCHANGED << backup_dir, timers >>
             [] OTHER ->
                  /\ backup_dir' = WriteFile(backup_dir, torn)
                  /\ creates' = [creates EXCEPT ![c] = backup_failed(noted)]
                  /\ UNCHANGED timers
    /\ UNCHANGED << sweep, download, utc_offset >>
    /\ UNCHANGED << now, gps_data, ingestVars, govVars, burst, hubVars, validation, other_bytes >>

\* the expiration without the look at the file: unlink() of a missing file
\* raises, and the handler logs the error
expire_unchecked(dir, path, unlink_ok) ==
    IF path \in Names(dir) /\ unlink_ok
    THEN [dir |-> { f \in dir : f.name # path }, state |-> "deleted"]
    ELSE [dir |-> dir, state |-> "error"]

\* _schedule_file_expiration after its sleep: if filepath.exists():
\* filepath.unlink(), an exception of unlink caught and logged
expire(dir, path, unlink_ok) ==
    IF path \notin Names(dir) THEN [dir |-> dir, state |-> "skipped"]
    ELSE IF unlink_ok THEN [dir |-> { f \in dir : f.name # path }, state |-> "deleted"]
    ELSE [dir |-> dir, state |-> "error"]

\* the sleep of an expiration task is over
TimerFire(c, unlink_ok) ==
    /\ timers[c].state = "sleeping"
    /\ now >= timers[c].due
    /\ LET e == expire(backup_dir, timers[c].path, unlink_ok)
       IN  /\ backup_dir' = e.dir
           /\ timers' = [timers EXCEPT ![c].state = e.state]
    /\ UNCHANGED << creates, sweep, download, utc_offset >>
    /\ UNCHANGED << now, gps_data, ingestVars, govVars, burst, hubVars, validation, other_bytes >>

\* the files cleanup_expired_backups tries to remove
ExpiredFiles(dir, t, offset) == { f \in get_backup_files(dir) : is_expired(f, t, offset) }

\* cleanup_expired_backups(): what it leaves; unlink raises for the files of
\* failing, which stay
cleanup_expired_backups(dir, t, offset, failing) ==
    dir \ { f \in ExpiredFiles(dir, t, offset) : f.name \notin failing }

\* DELETE /api/backup/cleanup: the handler has no await
CleanupEndpoint(failing) ==
    /\ failing \subseteq Names(ExpiredFiles(backup_dir, now, utc_offset))
    /\ LET after == cleanup_expired_backups(backup_dir, now, utc_offset, failing)
           initial_count == Cardinality(get_backup_files(backup_dir))
           final_count == Cardinality(get_backup_files(after))
       IN  /\ backup_dir' = after
           /\ sweep' = [at |-> now,
                        removed |-> Cardinality(backup_dir \ after),
                        files_removed |-> initial_count - final_count,
                        odd |-> ~sweep.odd]
    /\ UNCHANGED << timers, creates, download, utc_offset >>
    /\ UNCHANGED << now, gps_data, ingestVars, govVars, burst, hubVars, validation, other_bytes >>

\* GET /api/backup/download/{filename}
download_backup_file(name) ==
    /\ LET p == get_backup_file_path(name)
           listed == { f \in get_backup_files(backup_dir) : f.name = name }
           status ==
               IF ~(StartsWithPrefix(name) /\ EndsWithJsonOrCsv(name)) THEN 400
               ELSE IF ~p.ok THEN 500
               ELSE IF ~Exists(backup_dir, p.path) THEN 404
               ELSE IF listed = {} \/ \E f \in listed : is_expired(f, now, utc_offset)
                    THEN 410
               ELSE 200
       IN  download' = [name |-> name, status |-> status,
                        resolved |-> StartsWithPrefix(name) /\ EndsWithJsonOrCsv(name) /\ p.ok,
                        served |-> IF status = 200 THEN p.path ELSE << >>]
    /\ UNCHANGED << backup_dir, timers, creates, sweep, utc_offset >>
    /\ UNCHANGED << now, gps_data, ingestVars, govVars, burst, hubVars, validation, other_bytes >>

\* StepHours hours pass
HoursPass ==
    /\ now < MaxSteps * StepTicks
    /\ now' = now + StepTicks
    /\ UNCHANGED << gps_data, ingestVars, govVars, burst, hubVars, backupVars, validation, other_bytes >>

\* a backup an earlier run of the server left in backups/, age steps old at
\* time 0: its expiration task ended with that run
Leftover(age) ==
    BackupFile(backup_filename(0 - age * StepTicks, "json"), 0 - age * StepTicks,
               "json", TRUE, generate_backup_metadata(0), << >>)

LeftoverBackups == {Leftover(3)}

\* ------------------------------------------------------------------------
\* The system: concurrent ingestion requests and the monitoring task
\* ------------------------------------------------------------------------
\* no model built yet; of a GPSDataCreate(**body) call: the body, the time,
\* the fields its ValidationError names, and the timestamp of the model built
NoValidation == [ran |-> FALSE, body |-> << >>, at |-> 0, errors |-> {}, timestamp |-> None]

Started ==
    /\ now = 0
    /\ nreq = 0
    /\ reqs = [r \in 1..MaxRequests |-> NoRequest]
    /\ rate_window = [k \in RateKeys |-> {}]
    /\ last_decision = [a \in Addrs |-> NoDecision]
    /\ request_times = << >>
    /\ ws_broadcasts = {}
    /\ gpc = "sleep"
    /\ ticks = 0
    /\ gov = GovIdle
    /\ system_stats = << >>
    /\ burst = NoBurst
    /\ HubStarted
    /\ loop = LoopStarted
    /\ ExporterStarted
    /\ validation = NoValidation

\* the ingestion path on its own, over a store far below its limit
Init ==
    /\ Started
    /\ other_bytes = 0
    /\ gps_data = SeedData(SmallSeed)
    /\ backup_dir = {}
    /\ utc_offset = 0

Ingest ==
    \/ \E a \in Addrs : \E f \in SampleFixes(now) : Receive(a, f)
    \/ \E r \in 1..MaxRequests :
          Admit(r) \/ InsertOne(r) \/ FindOne(r) \/ BroadcastUpdate(r) \/ Return(r)

Governor ==
    \/ TickStart \/ ReadSize \/ ReadCount
    \/ DelCount \/ DelSelect \/ DelDelete
    \/ PostSize \/ PostCount \/ CreateStats

Next == Ingest \/ Clock

Spec == Init /\ [][Next]_vars

\* the monitoring task with ingestion running beside it: the requests are
\* followed as far as their insert, the last step of theirs the task can see
InitGovernor ==
    /\ Started
    /\ other_bytes = 0
    /\ \E n \in SeedCounts : gps_data = SeedData(n)
    /\ backup_dir = LeftoverBackups
    /\ utc_offset = 0

IngestValid ==
    \/ \E a \in Addrs : Receive(a, GoodFix("d1", None))
    \/ \E r \in 1..MaxRequests : Admit(r) \/ InsertOne(r)

NextGovernor == IngestValid \/ Governor

SpecGovernor == InitGovernor /\ [][NextGovernor]_vars

\* delete_oldest_records(db, percentage) called on its own, on any small store,
\* with at most one insert in flight: its document was built at some earlier
\* moment and reaches the store at any point of the call. Event timestamps
\* either follow the ingestion order or run against it.
Percentages == {10, 20, 25, 50, 100}

StoredAt(ca, reversed) ==
    { Document(i, ca[i], GoodFix("d1", Some(IF reversed THEN MaxCreated - ca[i] ELSE ca[i]))) :
        i \in DOMAIN ca }

InitDelete ==
    /\ \E n \in 0..MaxDocs : \E ca \in [(1 - n)..0 -> 0..MaxCreated] : \E reversed \in BOOLEAN :
          /\ \A i, j \in (1 - n)..0 : i < j => ca[i] <= ca[j]
          /\ gps_data = StoredAt(ca, reversed)
    /\ \E p \in Percentages : gov = [GovIdle EXCEPT !.percentage = p]
    /\ gpc = "del_count"
    /\ \/ reqs = [r \in 1..MaxRequests |-> NoRequest]
       \/ \E c \in 0..MaxCreated :
             reqs = [r \in 1..MaxRequests |->
                       IF r = 1
                       THEN [NoRequest EXCEPT !.pc = "admitted", !.addr = "10.0.0.1",
                                              !.fix = GoodFix("d1", Some(c)),
                                              !.decided_at = c]
                       ELSE NoRequest]
    /\ now = MaxCreated
    /\ nreq = MaxRequests
    /\ backup_dir = {}
    /\ utc_offset = 0
    /\ rate_window = [k \in RateKeys |-> {}]
    /\ last_decision = [a \in Addrs |-> NoDecision]
    /\ request_times = << >>
    /\ ws_broadcasts = {}
    /\ ticks = 0
    /\ system_stats = << >>
    /\ burst = NoBurst
    /\ HubStarted
    /\ loop = LoopStarted
    /\ ExporterStarted
    /\ validation = NoValidation
    /\ other_bytes = 0

NextDelete == DelCount \/ DelSelect \/ DelDelete \/ InsertOne(1)

SpecDelete == InitDelete /\ [][NextDelete]_vars

\* clients post BurstSize valid fixes one after the other, each request
\* running to its response before the next is sent, all within the first
\* second of the service
PostRapid(addr, dev) ==
    /\ burst.sent < BurstSize
    /\ now < TicksPerSecond
    /\ LET fix == GoodFix(dev, None)
           id == burst.accepted + 1
           key == get_remote_address(addr, fix)
           ok == LimiterAllows(rate_window[key], now)
           b == [burst EXCEPT !.sent = @ + 1, !.addrs = @ \cup {addr},
                              !.devs = @ \cup {dev}]
       IN  /\ RequestBodyValid(fix, now)
           /\ rate_window' = [rate_window EXCEPT ![key] = LimiterHit(@, now)]
           /\ IF ok
              THEN /\ gps_data' = gps_data \cup {Document(id, now, Normalized(fix, now))}
                   /\ ws_broadcasts' = ws_broadcasts \cup
                         {[type |-> "gps_update", id |-> id, fix |-> Normalized(fix, now)]}
                   /\ request_times' = Append(request_times, now)
                   /\ burst' = [b EXCEPT !.accepted = @ + 1]
              ELSE /\ burst' = [b EXCEPT !.limited = @ + 1]
                   /\ UNCHANGED << gps_data, ws_broadcasts, request_times >>
    /\ UNCHANGED << now, nreq, reqs, last_decision >>
    /\ UNCHANGED << govVars, hubVars, backupVars, validation, other_bytes >>

NextBurst == (\E a \in Addrs : \E dev \in {"d1", "d2"} : PostRapid(a, dev)) \/ Clock

SpecBurst == Init /\ [][NextBurst]_vars

\* the Broadcast Hub under concurrent ingestion: every request has stored
\* and read back its record and is about to broadcast it, while dashboards
\* connect, stall and go away
AllOutcomes == {"delivered", "lost", "timeout", "closed"}
Broadcasters == {1, 2}

InitHub ==
    /\ now = 0
    /\ backup_dir = {}
    /\ utc_offset = 0
    /\ nreq = MaxRequests
    /\ reqs = [r \in 1..MaxRequests |->
                 IF r \in Broadcasters
                 THEN [NoRequest EXCEPT !.pc = "read", !.addr = "10.0.0.1",
                                        !.fix = Normalized(GoodFix("d1", None), 0)]
                 ELSE NoRequest]
    /\ gps_data = { Document(r, 0, Normalized(GoodFix("d1", None), 0)) : r \in Broadcasters }
    /\ rate_window = [k \in RateKeys |-> {}]
    /\ last_decision = [a \in Addrs |-> NoDecision]
    /\ request_times = << >>
    /\ ws_broadcasts = {}
    /\ gpc = "sleep"
    /\ ticks = 0
    /\ gov = GovIdle
    /\ system_stats = << >>
    /\ burst = NoBurst
    /\ HubStarted
    /\ loop = LoopStarted
    /\ ExporterStarted
    /\ validation = NoValidation
    /\ other_bytes = 0

NextHub ==
    \/ \E s \in Sockets : Connect(s) \/ PeerClose(s) \/ EndpointDisconnect(s)
    \/ \E s \in Sockets : \E o \in AllOutcomes : WelcomeResolve(s, o)
    \/ \E r \in 1..MaxRequests : BroadcastUpdate(r) \/ BroadcastStart(r) \/ Return(r)
    \/ \E r \in 1..MaxRequests : \E o \in AllOutcomes : SendResolve(r, o)

SpecHub == InitHub /\ [][NextHub]_vars

\* ingestion and the monitoring task over a store whose operations may fail
InitFaults ==
    /\ Started
    /\ other_bytes = 0
    /\ gps_data = SeedData(20)
    /\ backup_dir = {}
    /\ utc_offset = 0

IngestFaults ==
    \/ \E dev \in {"d1", ""} : Receive("10.0.0.1", GoodFix(dev, None))
    \/ \E r \in 1..MaxRequests :
          \/ Admit(r) \/ InsertOne(r) \/ FindOne(r) \/ BroadcastUpdate(r) \/ Return(r)
          \/ \E applied \in BOOLEAN : InsertOneFails(r, applied)
          \/ FindOneFails(r)

GovernorFaults ==
    \/ ReadSizeFails \/ ReadCountFails \/ DeleteFails \/ PostReadFails
    \/ \E stored \in BOOLEAN : CreateStatsFails(stored)

\* the requests are served before the monitoring task's first tick
NextFaults == (ticks = 0 /\ IngestFaults) \/ Governor \/ GovernorFaults

SpecFaults == InitFaults /\ [][NextFaults]_vars

\* the Snapshot Exporter's create_backup on its own: backups are requested
\* by clients and by create_automatic_backup, and the read of the store and
\* the write of the file may fail
InitExport ==
    /\ Started
    /\ other_bytes = 0
    /\ gps_data = SeedData(SmallSeed)
    /\ utc_offset = 0
    /\ backup_dir \in {{}, LeftoverBackups}

NextExport ==
    \/ \E format \in {"json", "csv", "xml"} : create_backup_manual(format)
    \/ create_automatic_backup
    \/ \E c \in 1..MaxBackups : \E read_ok \in BOOLEAN : \E write \in {"written", "open_failed", "write_failed"} :
          FinishCreate(c, read_ok, write)

SpecExport == InitExport /\ [][NextExport]_vars

\* the expiry of backups: clients have backups written, the hours pass, the
\* expiration tasks and the cleanup endpoint remove files; backups/ may hold
\* a file of an earlier run, and the server's clock may be set to a zone
\* off UTC
InitExpiry ==
    /\ Started
    /\ other_bytes = 0
    /\ gps_data = SeedData(SmallSeed)
    /\ utc_offset \in UtcOffsets
    /\ backup_dir \in {{}, LeftoverBackups}

NextExpiry ==
    \/ \E format \in {"json", "csv"} :
          NextCreate \in {1, 2} /\ create_backup_manual(format)
    \/ \E c \in {1, 2} : FinishCreate(c, TRUE, "written")
    \/ \E c \in {1, 2} : \E unlink_ok \in BOOLEAN : TimerFire(c, unlink_ok)
    \/ \E failing \in SUBSET Names(backup_dir) : CleanupEndpoint(failing)
    \/ HoursPass

SpecExpiry == InitExpiry /\ [][NextExpiry]_vars

\* the names clients ask for: those of the files there are, one of a file
\* there is not, and names off the pattern
SampleNames(dir) ==
    Names(dir) \cup OutsideFiles \cup
    { backup_filename(0, "csv"),
      << "gps_backup_", "x", ".json" >>,
      << "x", ".json" >>,
      << "gps_backup_", "x", ".txt" >>,
      << "gps_backup_", "x" >>,
      << "..", "/", "gps_backup_", "x", ".json" >>,
      << "gps_backup_", "..", "\\", "x", ".csv" >>,
      << "gps_backup_", "..", ".json" >>,
      << "gps_backup_", "x.", ".json" >>,
      << "gps_backup_", "x", "\\", "x", ".json" >> }

\* downloads from a directory of one or two backups, the newer 12 hours old
InitDownload ==
    /\ Started
    /\ other_bytes = 0
    /\ gps_data = SeedData(SmallSeed)
    /\ utc_offset \in UtcOffsets
    /\ \/ backup_dir = {Leftover(1)}
       \/ backup_dir = {Leftover(1), Leftover(MaxSteps)}

NextDownload ==
    \/ \E name \in SampleNames(backup_dir) : download_backup_file(name)
    \/ \E failing \in SUBSET Names(backup_dir) : CleanupEndpoint(failing)
    \/ HoursPass

SpecDownload == InitDownload /\ [][NextDownload]_vars

\* ------------------------------------------------------------------------
\* Properties of the ingestion path (Spec)
\* ------------------------------------------------------------------------
BroadcastIds == { m.id : m \in ws_broadcasts }

\* the fix passed the validator at some moment up to t (documents that were
\* in the store at the start: at their creation)
PassedValidation(fix, t) ==
    \E v \in (IF t < 0 THEN t ELSE 0)..t : FixValid(fix, v)

\* C1: a fix the validator rejects (the request is answered 422) is never
\* inserted and never broadcast, and every stored or broadcast record carries
\* a fix whose latitude, longitude, speed, accuracy and timestamp passed
\* validation.
C1_RejectedNeverStored ==
    /\ \A r \in 1..MaxRequests :
          reqs[r].status = 422 => r \notin Ids(gps_data) /\ r \notin BroadcastIds
    /\ \A d \in gps_data : PassedValidation(d.fix, d.created_at)
    /\ \A m \in ws_broadcasts : PassedValidation(m.fix, now)

C1_Witness ==
    /\ \E r \in 1..MaxRequests : reqs[r].status = 422
    /\ \E r \in 1..MaxRequests : r \in Ids(gps_data) /\ r \in BroadcastIds

RateWindowTicks == RATE_LIMIT_SECONDS * TicksPerSecond

C9_WitnessSpaced ==
    \E a \in Addrs :
        LET d == last_decision[a]
        IN  d.prev_at >= 0 /\ d.prev_allowed /\ d.at - d.prev_at >= RateWindowTicks
            /\ d.allowed

\* ------------------------------------------------------------------------
\* Properties of the Capacity Governor (SpecGovernor)
\* ------------------------------------------------------------------------
\* a monitor_system_health call has returned; gov holds what it did
TickDone == gpc = "sleep" /\ ticks > 0

\* the usage the call computed from its first size reading
TickUsageAtLeast(pct) == UsageAtLeast(gov.first_size, pct)

\* the removed documents are the oldest of those the selection saw
RemovedAreOldest ==
    \A d \in gov.removed : \A k \in gov.seen \ gov.removed :
        d.created_at <= k.created_at

\* C2: in every reachable state the storage size is at most the configured
\* capacity limit.
C2_SizeWithinLimit == get_db_size(gps_data) <= DATABASE_SIZE_LIMIT_BYTES

\* C3: a tick that finds 0.90 <= usage < 0.95 takes one backup and deletes
\* 25% of the records.
C3_WarningBackupThenQuarter ==
    (TickDone /\ TickUsageAtLeast(90) /\ ~TickUsageAtLeast(95)) =>
        /\ gov.backups = 1
        /\ Cardinality(gov.removed) = (gov.total_count * 25) \div 100

\* C4 as claimed: a tick that finds usage >= 0.95 deletes 50% of the oldest
\* records and takes no backup.
C4_EmergencyHalf ==
    (TickDone /\ TickUsageAtLeast(95)) =>
        /\ gov.backups = 0
        /\ Cardinality(gov.removed) = (gov.total_count * 50) \div 100

\* C4 as amended: a tick that finds usage >= 0.95 deletes 20% of the records
\* (floor(N * 20 / 100) of the N it counts), the oldest ones, and takes no
\* backup.
C4_EmergencyFifth ==
    (TickDone /\ TickUsageAtLeast(95)) =>
        /\ gov.backups = 0
        /\ Cardinality(gov.removed) = (gov.total_count * 20) \div 100
        /\ gov.deleted_count = Cardinality(gov.removed)
        /\ RemovedAreOldest
        /\ gov.removed \cap gps_data = {}

C4_Witness ==
    /\ TickDone /\ TickUsageAtLeast(95)
    /\ Cardinality(gov.removed) >= 3
    /\ \E i \in 1..Len(system_stats) :
          system_stats[i].total_gps_records < gov.total_count

\* C5: a step of a tick that finds usage < 0.90 leaves the stored record set
\* as it is (the steps before the size is read included).
C5_NoPurgeBelowWarning ==
    [][ (gpc' # gpc /\ ~UsageAtLeast(gov'.first_size, 90)) => gps_data' = gps_data ]_vars

\* a tick at 85% usage has run to its end beside an insert
C5_Witness ==
    /\ TickDone
    /\ gov.first_size >= 85 * BytesPerPercent /\ ~TickUsageAtLeast(90)
    /\ Len(system_stats) >= 1
    /\ get_gps_data_count(gps_data) > gov.total_records

\* ------------------------------------------------------------------------
\* Properties of delete_oldest_records (SpecDelete)
\* ------------------------------------------------------------------------
\* the call has returned gov.deleted_count
Returned == gpc \in {"stats", "post_size"}

\* C6: deleteOldest(p), counting N records, deletes exactly floor(N*p/100)
\* records and returns that count; when that is 0 it deletes nothing and
\* returns 0.
C6_DeletesFloor ==
    Returned =>
        \E k \in 0..gov.total_count :
            /\ k * 100 <= gov.total_count * gov.percentage
            /\ (k + 1) * 100 > gov.total_count * gov.percentage
            /\ Cardinality(gov.removed) = k
            /\ gov.deleted_count = k
            /\ gov.removed \cap gps_data = {}

\* 50% of 5 records: 2 are deleted
C6_Witness ==
    /\ Returned /\ gov.total_count = 5 /\ gov.percentage = 50
    /\ gov.deleted_count = 2

\* 10% of 5 records: nothing is deleted
C6_WitnessNoop ==
    /\ Returned /\ gov.total_count = 5 /\ gov.percentage = 10
    /\ gov.deleted_count = 0 /\ Cardinality(gps_data) >= 5

\* C7 as claimed: every deleted record's (event) timestamp is at most the
\* timestamp of every record that remains.
C7_SmallestTimestamps ==
    Returned =>
        \A d \in gov.removed : \A k \in gps_data :
            Val(d.fix.timestamp) <= Val(k.fix.timestamp)

\* the ingestion time in place of the event timestamp, against every record
\* that remains
C7_SmallestCreatedAtOfAll ==
    Returned =>
        \A d \in gov.removed : \A k \in gps_data : d.created_at <= k.created_at

\* C7 as amended: every deleted record's created_at (ingestion time) is at
\* most the created_at of every remaining record that was in storage when
\* the ids were selected.
C7_SmallestCreatedAt ==
    Returned =>
        \A d \in gov.removed : \A k \in gps_data \cap gov.seen :
            d.created_at <= k.created_at

C7_Witness ==
    /\ Returned /\ gov.removed # {}
    /\ \E d \in gov.removed : \E k \in gps_data \cap gov.seen :
          d.created_at < k.created_at /\ Val(d.fix.timestamp) > Val(k.fix.timestamp)

\* C8: a record inserted after the call selected its ids is never deleted by
\* the call: what it deletes was in storage at the selection.
C8_LateInsertSurvives ==
    /\ gov.removed \subseteq gov.seen
    /\ Returned => \A d \in gps_data : d \notin gov.seen => d.id \notin Ids(gov.removed)

\* a record older than a deleted one arrived between selection and delete,
\* and is still stored
C8_Witness ==
    /\ Returned /\ gov.removed # {}
    /\ \E d \in gps_data : d \notin gov.seen /\ d.id = 1
          /\ \E x \in gov.removed : d.created_at < x.created_at

\* ------------------------------------------------------------------------
\* Properties of a rapid run of posts (SpecBurst)
\* ------------------------------------------------------------------------
BurstOutcomeOne ==
    /\ burst.accepted = 1
    /\ burst.limited = BurstSize - 1
    /\ Cardinality(gps_data) = SmallSeed + 1

\* C10 as claimed: of 150 valid fixes for device "d1" posted within one
\* second exactly 1 is accepted, the others are rate-limited, and the storage
\* count grows by exactly 1.
C10_OnePerDevice ==
    (burst.sent = BurstSize /\ burst.devs = {"d1"}) => BurstOutcomeOne

\* C10 as amended: of 150 valid fixes posted from one remote address within
\* one second, whatever devices they name, exactly 1 is accepted, the others
\* are rate-limited, and the storage count grows by exactly 1.
C10_OnePerAddress ==
    (burst.sent = BurstSize /\ Cardinality(burst.addrs) = 1) => BurstOutcomeOne

C10_Witness ==
    /\ burst.sent = BurstSize /\ Cardinality(burst.addrs) = 1
    /\ burst.devs = {"d1"} /\ burst.accepted = 1 /\ burst.limited = BurstSize - 1

\* ------------------------------------------------------------------------
\* Order and outcome of the Rate Gate and the Fix Validator (Spec)
\* ------------------------------------------------------------------------
\* the Fix Validator has run on request r
Validated(r) == reqs[r].pc \notin {"new", "responded"} \/ reqs[r].status # 0

\* the Rate Gate has admitted request r
Admitted(r) ==
    \/ reqs[r].pc \in {"admitted", "inserted", "read", "broadcast"}
    \/ reqs[r].status \in {200, 500}

\* C11: the Rate Gate decides before the Fix Validator runs: validation is
\* applied only to admitted fixes, and a fix the Rate Gate denies is never
\* validated.
C11_GateBeforeValidator ==
    \A r \in 1..MaxRequests : Validated(r) => Admitted(r)

\* C12: a fix the Rate Gate denies gets the rate-limited response, which is
\* not the validation failure's, and the denial inserts no record and
\* broadcasts no message.
C12_DeniedChangesNothing ==
    [][ \A r \in 1..MaxRequests :
          (reqs[r].pc = "validated" /\ reqs'[r].pc = "responded") =>
              /\ ~last_decision'[reqs[r].addr].allowed
              /\ reqs'[r].status = 429
              /\ gps_data' = gps_data
              /\ ws_broadcasts' = ws_broadcasts ]_vars

\* a denied request beside one whose record was stored and broadcast
C12_Witness ==
    \E r, q \in 1..MaxRequests :
        /\ reqs[r].status = 429 /\ r \notin Ids(gps_data) /\ r \notin BroadcastIds
        /\ q \in Ids(gps_data) /\ q \in BroadcastIds

\* ------------------------------------------------------------------------
\* Properties of the Broadcast Hub (SpecHub)
\* ------------------------------------------------------------------------
\* the broadcast call of request r has returned
Done(r) == bcast[r].pc = "done"

Received(s, m) == \E p \in DOMAIN sock[s].inbox : sock[s].inbox[p] = m

\* the position of request r's broadcast call among the calls
CallOrder(r) == CHOOSE k \in DOMAIN calls : calls[k] = r

\* C13: in a broadcast, a subscriber whose send fails does not prevent
\* delivery to the remaining subscribers (every subscriber of the call gets
\* its send, and those still there receive the message), and it is absent
\* from the registry once the broadcast call has returned.
C13_FailedSubscriberRemoved ==
    \A r \in 1..MaxRequests :
        Done(r) =>
            /\ bcast[r].i = Len(bcast[r].copy)
            /\ \A k \in DOMAIN bcast[r].copy :
                  LET s == bcast[r].copy[k]
                  IN  \/ s \in bcast[r].failed
                      \/ Received(s, UpdateMsg(r))
                      \/ sock[s].peer = "gone"
            /\ \A s \in bcast[r].failed : ~InList(active_connections, s)

\* the first subscriber's send failed, the second one received the message
C13_Witness ==
    \E r \in 1..MaxRequests :
        /\ Done(r) /\ Len(bcast[r].copy) >= 2
        /\ bcast[r].copy[1] \in bcast[r].failed
        /\ Received(bcast[r].copy[2], UpdateMsg(r))
        /\ sock[bcast[r].copy[1]].handled = "no"

\* C14: a broadcast waiting on the send to one subscriber keeps no other
\* subscriber waiting: the sends to all the others have been made.
C14_NoWaitOnPendingSend ==
    \A r \in 1..MaxRequests :
        bcast[r].pc = "sending" => bcast[r].i = Len(bcast[r].copy)

\* C15: every subscriber receives the updates in the order of the broadcast
\* calls.
C15_OrderMatchesCalls ==
    \A s \in Sockets :
        \A p, q \in DOMAIN sock[s].inbox :
            (p < q /\ sock[s].inbox[p].type = "gps_update"
                   /\ sock[s].inbox[q].type = "gps_update")
                => CallOrder(sock[s].inbox[p].id) < CallOrder(sock[s].inbox[q].id)

\* C16: the ingestion has answered its caller whenever its broadcast is
\* waiting on a subscriber: the response does not wait for the broadcast.
C16_ReturnWithoutWaiting ==
    \A r \in 1..MaxRequests :
        bcast[r].pc = "sending" => reqs[r].pc = "responded"

\* C17: a send failure during the broadcast an ingestion triggered never
\* reaches the ingestion: no request fails, and once the broadcast is over
\* the request has returned success, its record is stored, and the failing
\* subscriber is off the registry.
C17_SendFailureStaysLocal ==
    \A r \in 1..MaxRequests :
        /\ reqs[r].status \in {0, 200}
        /\ (Done(r) /\ bcast[r].failed # {}) =>
              /\ reqs[r].status = 200
              /\ r \in Ids(gps_data)
              /\ \A s \in bcast[r].failed : ~InList(active_connections, s)

\* a send failed on a closed transport and the request returned success
C17_Witness ==
    \E r \in 1..MaxRequests : \E s \in Sockets :
        /\ Done(r) /\ s \in bcast[r].failed /\ sock[s].peer = "gone"
        /\ reqs[r].status = 200 /\ r \in Ids(gps_data)

\* C18: a subscriber receives no update whose broadcast call started before
\* it was registered, and its welcome message, if it gets one, comes first.
C18_NoBacklog ==
    \A s \in Sockets :
        \A p \in DOMAIN sock[s].inbox :
            LET m == sock[s].inbox[p]
            IN  IF m.type = "gps_update" THEN CallOrder(m.id) > sock[s].joined
                ELSE p = 1

\* a subscriber that joined while the first broadcast was running got its
\* welcome and the second update, and the first broadcast is still running
C18_Witness ==
    \E s \in Sockets :
        /\ sock[s].joined = 1
        /\ sock[s].inbox = << WelcomeMsg, UpdateMsg(2) >>
        /\ bcast[1].pc = "sending"

\* C19: disconnect is idempotent: no call of it raises, also for a websocket
\* that is already off the list, and a second call leaves the list as the
\* first one left it.
C19_DisconnectIdempotent ==
    /\ raised = {}
    /\ \A s \in Sockets :
          LET once == disconnect(active_connections, s)
              twice == disconnect(once.conns, s)
          IN  ~once.raised /\ ~twice.raised /\ twice.conns = once.conns
    /\ \A s \in Sockets : sock[s].handled # "no" => ~InList(active_connections, s)

\* a failed broadcast removed the websocket before its connection handler
\* called disconnect
C19_Witness ==
    \E s \in Sockets : \E r \in 1..MaxRequests :
        /\ sock[s].handled = "absent"
        /\ Done(r) /\ s \in bcast[r].failed

\* ------------------------------------------------------------------------
\* The snapshot of a tick (SpecGovernor)
\* ------------------------------------------------------------------------
\* the documents the purge of the current tick left of those it saw
Survivors == gov.seen \ gov.removed

\* C20: every tick persists exactly one StatsSnapshot, purge or no purge, and
\* after a tick that deleted records the snapshot's count and size are
\* readings taken after the deletion: at least what the purge left, at most
\* what is stored.
C20_OneSnapshotPerTick ==
    /\ Len(system_stats) = IF gpc = "sleep" THEN ticks ELSE ticks - 1
    /\ (TickDone /\ gov.removed # {}) =>
          LET snap == system_stats[Len(system_stats)]
          IN  /\ snap.total_gps_records >= get_gps_data_count(Survivors)
              /\ snap.total_gps_records <= get_gps_data_count(gps_data)
              /\ snap.database_size_bytes >= get_db_size(Survivors)
              /\ snap.database_size_bytes <= get_db_size(gps_data)

\* a tick without a purge and a tick with one, a snapshot each
C20_Witness ==
    /\ TickDone /\ gov.removed # {}
    /\ Len(system_stats) = 2
    /\ ~UsageAtLeast(system_stats[1].database_size_bytes, WARNING_THRESHOLD_PCT)
    /\ system_stats[2].total_gps_records < system_stats[1].total_gps_records

\* ------------------------------------------------------------------------
\* What a tick does beside the purge (SpecGovernor)
\* ------------------------------------------------------------------------
\* C21: every Governor tick broadcasts its new StatsSnapshot to the
\* subscribers through the Broadcast Hub, purge or no purge: once a tick has
\* returned, a system_stats message has been handed to the hub.
C21_TickBroadcastsSnapshot ==
    TickDone => \E m \in ws_broadcasts : m.type = "system_stats"

\* C22: every Governor tick sweeps the expired backups, so that no backup
\* older than the time to live remains when the tick ends.
C22_TickSweepsExpiredBackups ==
    TickDone => \A f \in backup_dir : ~OlderThanTTL(f, now)

\* ------------------------------------------------------------------------
\* The monitoring loop and failures (SpecFaults)
\* ------------------------------------------------------------------------
\* a monitor_system_health call has returned after an exception reached its
\* handler
TickRaised == TickDone /\ gov.raised

\* C23: when a Governor tick raises an exception, the exception is caught,
\* the loop does not terminate, and the next tick is scheduled after the
\* shortened retry interval of 60 s instead of the normal period.
C23_RetryAfterFailure ==
    TickRaised => /\ loop.running = 0
                  /\ loop.interval = RETRY_INTERVAL_S

\* C24: the Capacity Governor never overlaps itself: at most one
\* monitor_system_health call is executing at any time, and none is while
\* the loop sleeps, so a new tick never starts while the one before runs.
C24_NoOverlap ==
    /\ loop.running <= 1
    /\ loop.running = 1 <=> gpc # "sleep"

\* the second tick deletes while the first, which failed, is long over
C24_Witness ==
    /\ ticks = 2 /\ loop.running = 1 /\ gpc = "del_delete"
    /\ loop.failed_ticks = 1

\* C29: a storage failure of an ingestion is answered 500, never the 422 of
\* a validation error, and never 200; a storage failure in a Governor tick
\* is caught: the call returns, the loop is in its sleep and starts the next
\* tick from there.
C29_StorageFailureSurfaced ==
    /\ \A r \in 1..MaxRequests :
          reqs[r].fault => /\ reqs[r].pc = "responded"
                           /\ reqs[r].status = 500
                           /\ \A q \in 1..MaxRequests :
                                 (reqs[q].pc = "responded" /\ ~reqs[q].fault)
                                     => reqs[q].status # reqs[r].status
    /\ (gpc = "sleep" /\ gov.faulted) =>
          /\ loop.running = 0
          /\ loop.interval = MONITOR_INTERVAL_S
          /\ ticks < MaxTicks => ENABLED TickStart

\* one post failed in the store and one was refused by the validator; the
\* first tick failed and the second has started
C29_Witness ==
    /\ \E r, q \in 1..MaxRequests :
          /\ reqs[r].fault /\ reqs[r].status = 500
          /\ ~reqs[q].fault /\ reqs[q].status = 422
    /\ loop.failed_ticks = 1 /\ ticks = 2 /\ gpc = "count"

\* ------------------------------------------------------------------------
\* Properties of the Snapshot Exporter (SpecDownload, SpecExpiry, SpecExport)
\* ------------------------------------------------------------------------
\* the name has the prefix and an allowed extension, no path separator and
\* no parent-directory reference
MatchesPattern(name) ==
    /\ StartsWithPrefix(name)
    /\ EndsWithJsonOrCsv(name)
    /\ \A i \in 1..Len(name) : name[i] \notin {"/", "\\", ".."}

\* C25: path resolution for a download rejects every filename that does not
\* match the generated pattern, and a download that is served comes from a
\* path of one component, a file of the backup directory.
C25_PathResolutionRejects ==
    download.name # << >> =>
        /\ ~MatchesPattern(download.name) =>
              /\ ~download.resolved
              /\ download.status \in {400, 500}
        /\ download.status = 200 =>
              /\ MatchesPattern(download.served)
              /\ download.served \notin OutsideFiles

\* a name that has the prefix and the extension and leads out of the
\* directory to a file that exists was refused
C25_Witness ==
    /\ download.name \in OutsideFiles
    /\ download.status = 500
    /\ ~download.resolved

\* the expiration task of call c ends in this step
TimerEnds(c) == timers[c].state = "sleeping" /\ timers'[c].state # "sleeping"

\* C26: an expiration timer looks for its file before it deletes: when the
\* sweep removed the file first, the firing deletes nothing and raises no
\* error; a firing removes no file but the timer's own and leaves the other
\* timers as they are.
C26_TimerChecksExistence ==
    [][ \A c \in 1..MaxBackups : TimerEnds(c) =>
           /\ timers[c].path \notin Names(backup_dir) =>
                 /\ backup_dir' = backup_dir
                 /\ timers'[c].state = "skipped"
           /\ backup_dir' \subseteq backup_dir
           /\ \A f \in backup_dir \ backup_dir' : f.name = timers[c].path
           /\ \A d \in 1..MaxBackups \ {c} : timers'[d] = timers[d] ]_vars

\* the sweep removed the first backup, whose timer then found nothing, and
\* the timer of the second deleted its file
C26_Witness ==
    /\ timers[1].state = "skipped"
    /\ timers[2].state = "deleted"
    /\ timers[1].path # timers[2].path
    /\ sweep.removed = 1

\* the cleanup endpoint is called in this step
Swept == sweep'.odd # sweep.odd

\* what a second call of the cleanup endpoint, made at once, would answer
SecondCallRemoves ==
    Cardinality(get_backup_files(backup_dir')) -
    Cardinality(get_backup_files(cleanup_expired_backups(backup_dir', now', utc_offset', {})))

\* C27: cleanupExpired() called twice in a row with no new file in between:
\* the first call removes every expired backup (none older than the time to
\* live is left), the second removes zero files.
C27_CleanupIdempotent ==
    [][ Swept => /\ \A f \in backup_dir' : ~OlderThanTTL(f, now')
                 /\ SecondCallRemoves = 0 ]_vars

\* the documents read back from the rows of a backup
Imported(f) == { deserialize_gps_record(f.data[i]) : i \in 1..Len(f.data) }

\* C28: a backup that was exported holds, read back, the record set of the
\* store, and the count of its metadata is the length of its data array.
C28_RoundTrip ==
    [][ \A c \in 1..MaxBackups :
           (creates[c].pc = "reading" /\ creates'[c].returned = "filename") =>
               LET f == CHOOSE g \in backup_dir' : g.name = creates'[c].name
               IN  /\ Imported(f) = gps_data
                   /\ f.format = "json" => f.metadata.total_records = Len(f.data) ]_vars

\* the write of the backup of call c failed
WriteFailed(c) ==
    creates[c].pc = "done" /\ creates[c].write \in {"open_failed", "write_failed"}

\* C30: a backup whose write fails is reported to its requester: the manual
\* caller is answered 500, create_automatic_backup returns None, no file
\* name is returned and no expiration is scheduled; the step leaves the
\* monitoring loop as it is.
C30_WriteFailureSurfaced ==
    /\ \A c \in 1..MaxBackups : WriteFailed(c) =>
          /\ creates[c].caller = "manual" =>
                creates[c].status = 500 /\ creates[c].returned = "error"
          /\ creates[c].caller = "auto" => creates[c].returned = "None"
          /\ timers[c].state = "none"
    /\ gpc = "sleep" /\ loop = LoopStarted

\* a manual backup and an automatic one have failed, one before its file
\* existed and one leaving a torn file
C30_Witness ==
    /\ \E c, d \in 1..MaxBackups :
          /\ WriteFailed(c) /\ creates[c].caller = "manual"
          /\ creates[c].write = "write_failed"
          /\ WriteFailed(d) /\ creates[d].caller = "auto"
          /\ creates[d].write = "open_failed"
    /\ \E f \in backup_dir : ~f.complete

\* ------------------------------------------------------------------------
\* The Fix Validator on its own: GPSDataCreate(**body)
\* ------------------------------------------------------------------------
\* A timestamp of a request body is [wall |-> the date and time it is written
\* with, utcoffset |-> None, or the UTC offset it is written with]; the
\* instant it names is wall - utcoffset.

\* validate_timestamp_reasonableness: "if v.tzinfo is not None:
\* v = v.replace(tzinfo=None)", which keeps the date and time as written
replace_tzinfo_none(ts) == IF IsNone(ts) THEN None ELSE Some(Val(ts).wall)

\* the fields the ValidationError of GPSDataCreate(**fix) names
validation_errors(fix, t) ==
    LET valid == [device_id |-> device_id_ok(fix.device_id),
                  lattitude |-> validate_latitude_precision(fix.lattitude),
                  longitude |-> validate_longitude_precision(fix.longitude),
                  speed |-> validate_speed_reasonableness(fix.speed),
                  altitude |-> altitude_ok(fix.altitude),
                  heading |-> heading_ok(fix.heading),
                  accuracy |-> validate_accuracy_reasonableness(fix.accuracy),
                  timestamp |-> validate_timestamp_reasonableness(
                                    set_timestamp(fix.timestamp, t), t),
                  additional_data |-> validate_additional_data(fix.additional_data)]
    IN  { f \in DOMAIN valid : ~valid[f] }

\* GPSDataCreate(**body) at time now
BuildModel(body) ==
    /\ LET fix == [body EXCEPT !.timestamp = replace_tzinfo_none(body.timestamp)]
       IN  validation' = [ran |-> TRUE, body |-> body, at |-> now,
                          errors |-> validation_errors(fix, now),
                          timestamp |-> IF RequestBodyValid(fix, now)
                                        THEN Normalized(fix, now).timestamp
                                        ELSE None]
    /\ UNCHANGED << now, gps_data, ingestVars, govVars, burst, hubVars, backupVars, other_bytes >>

\* request bodies on and around the limits of the speed, coordinate and
\* timestamp checks. The timestamps: none, and the instants on and one tick
\* past the two limits, each written naive and with a UTC offset of -2, 0 and
\* +2 hours
SampleBodies(t) ==
    { [GoodFix("d1", ts) EXCEPT !.speed = s, !.lattitude = lat, !.longitude = lon] :
        ts \in {None} \cup
               { Some([wall |-> t + d + (IF IsNone(tz) THEN 0 ELSE Val(tz)),
                       utcoffset |-> tz]) :
                   d \in {0, FUTURE_LIMIT_HOURS * TicksPerHour,
                          FUTURE_LIMIT_HOURS * TicksPerHour + 1,
                          0 - STALE_LIMIT_DAYS * TicksPerDay,
                          0 - STALE_LIMIT_DAYS * TicksPerDay - 1},
                   tz \in {None, Some(0 - 2 * TicksPerHour), Some(0),
                           Some(2 * TicksPerHour)} },
        s \in {None, Some(-1), Some(MAX_SPEED_KMH - 1), Some(MAX_SPEED_KMH),
               Some(MAX_SPEED_KMH + 1)},
        lat \in {Coord(0, 1), Coord(12971, 3)},
        lon \in {Coord(0, 1), Coord(77594, 3)} }

NextValidator == (\E body \in SampleBodies(now) : BuildModel(body)) \/ Clock

SpecValidator == Init /\ [][NextValidator]_vars

\* ------------------------------------------------------------------------
\* Properties of the Fix Validator (SpecValidator)
\* ------------------------------------------------------------------------
\* C31: a fix whose speed is above the ceiling of 720 km/h is rejected, the
\* speed check naming the field; a speed equal to the ceiling passes the
\* speed check, and the fix is accepted when its other fields are valid; the
\* speed one step above the ceiling is rejected.
C31_SpeedCeiling ==
    validation.ran /\ ~IsNone(validation.body.speed) =>
        LET v == Val(validation.body.speed)
        IN  /\ v > MAX_SPEED_KMH => "speed" \in validation.errors
            /\ v = MAX_SPEED_KMH + 1 => "speed" \in validation.errors
            /\ v = MAX_SPEED_KMH => "speed" \notin validation.errors

C31_Witness ==
    /\ validation.ran
    /\ validation.body.speed = Some(MAX_SPEED_KMH)
    /\ validation.errors = {}
    /\ ~IsNone(validation.timestamp)

\* C32: a fix whose latitude or longitude is exactly 0.0 is rejected,
\* whatever its speed, its timestamp and its other coordinate are.
C32_NullIslandRejected ==
    validation.ran =>
        /\ validation.body.lattitude.v = 0 => "lattitude" \in validation.errors
        /\ validation.body.longitude.v = 0 => "longitude" \in validation.errors
        /\ (validation.body.lattitude.v = 0 \/ validation.body.longitude.v = 0)
              => IsNone(validation.timestamp)

C32_Witness ==
    /\ validation.ran
    /\ validation.body.lattitude.v = 0
    /\ validation.body.longitude.v # 0
    /\ validation.errors = {"lattitude"}

\* the instant a timestamp of a request body names
Instant(ts) == ts.wall - (IF IsNone(ts.utcoffset) THEN 0 ELSE Val(ts.utcoffset))

\* C40: a timestamp written with a UTC offset is normalized to the UTC
\* instant before the window check and before storage: the timestamp check
\* passes exactly when the instant is neither more than 1 hour ahead of the
\* clock nor more than 7 days behind it, and the model built carries the
\* instant.
C40_TimestampNormalizedToUtc ==
    validation.ran /\ ~IsNone(validation.body.timestamp) =>
        LET t == Instant(Val(validation.body.timestamp))
            in_window == /\ t <= validation.at + FUTURE_LIMIT_HOURS * TicksPerHour
                         /\ t >= validation.at - STALE_LIMIT_DAYS * TicksPerDay
        IN  /\ "timestamp" \in validation.errors <=> ~in_window
            /\ validation.errors = {} => validation.timestamp = Some(t)

\* ------------------------------------------------------------------------
\* The registry under concurrent connects, disconnects and broadcasts (SpecHub)
\* ------------------------------------------------------------------------
\* the websockets broadcast call r has called send on, in the order of the calls
Attempts(r) == SubSeq(bcast[r].copy, 1, bcast[r].i)

\* websocket s was taken off the registry, or is about to be by the broadcast
\* that failed on it: its connection handler called disconnect, the send of
\* its welcome failed, or a send of a broadcast failed
Disconnected(s) == sock[s].handled # "no"
FailedIn(s, pcs) ==
    \/ sock[s].welcome_failed
    \/ \E r \in 1..MaxRequests : bcast[r].pc \in pcs /\ s \in bcast[r].failed

\* C38 as stated: the first message every subscriber receives is its welcome.
C38_WelcomeFirst ==
    \A s \in Sockets : sock[s].inbox # << >> => sock[s].inbox[1] = WelcomeMsg

\* C33: with subscribers connecting and disconnecting while broadcasts are in
\* flight, no broadcast raises; a broadcast that has returned made exactly one
\* delivery attempt to each subscriber that was registered when it started,
\* and to nobody else; and the registry holds every subscriber once: never
\* one that was disconnected or had failed when a broadcast returned, always
\* the connected ones that were neither disconnected nor failed.
C33_RegistryConsistent ==
    /\ \A e \in raised : e.at # "broadcast"
    /\ \A r \in 1..MaxRequests : Done(r) => Attempts(r) = bcast[r].registered
    /\ \A k, l \in DOMAIN active_connections :
          active_connections[k] = active_connections[l] => k = l
    /\ \A s \in Sockets :
          /\ InList(active_connections, s) =>
                sock[s].peer # "none" /\ ~Disconnected(s) /\ ~FailedIn(s, {"done"})
          /\ (sock[s].peer # "none" /\ ~Disconnected(s) /\ ~FailedIn(s, {"sending", "done"}))
                => InList(active_connections, s)

\* a broadcast is in flight; one subscriber it started with has disconnected
\* since, and another one, registered since, is in the registry
C33_Witness ==
    \E r \in 1..MaxRequests : \E s, t \in Sockets :
        /\ bcast[r].pc = "sending"
        /\ InList(bcast[r].registered, s) /\ sock[s].handled = "removed"
        /\ ~InList(bcast[r].registered, t) /\ InList(active_connections, t)

\* a delivery attempt is made to websocket s in this step
AttemptMade(s) ==
    /\ Len(sock'[s].pending) > 0
    /\ sock'[s].pending[Len(sock'[s].pending)].type = "gps_update"
    /\ \/ Len(sock[s].pending) = 0
       \/ sock[s].pending[Len(sock[s].pending)] # sock'[s].pending[Len(sock'[s].pending)]

\* C34: a subscriber only moves Connecting -> Open -> Closed: it is in the
\* registry only after its handshake was accepted, once removed it is never
\* in the registry again, and no delivery is attempted to it after it was
\* removed.
C34_SubscriberLifecycle ==
    [][\A s \in Sockets :
          /\ InList(active_connections', s) => sock'[s].peer # "none"
          /\ (sock[s].peer # "none" /\ ~InList(active_connections, s))
                => ~InList(active_connections', s)
          /\ AttemptMade(s) => InList(active_connections, s)]_vars

\* ------------------------------------------------------------------------
\* The purge over many ticks, nothing ingested (SpecPurge)
\* ------------------------------------------------------------------------
\* start_monitoring_task: 'while True'. The loop has no last call: from the
\* MaxTicks-th call on, the count of the calls and the snapshots of the calls
\* counted so far are dropped and the count starts again
LoopAgain ==
    /\ gpc = "sleep" /\ ticks = MaxTicks
    /\ ticks' = 0
    /\ system_stats' = << >>
    /\ UNCHANGED << now, gps_data, gpc, gov, loop >>
    /\ UNCHANGED << ingestVars, burst, hubVars, backupVars, validation, other_bytes >>

\* a store of 1 to MaxDocs records in a database that is at the warning
\* threshold without them, and the stores of SpecGovernor, which are all
\* there is in their database
InitPurge ==
    /\ Started
    /\ backup_dir = {}
    /\ utc_offset = 0
    /\ \/ /\ \E n \in 1..MaxDocs : gps_data = SeedData(n)
          /\ other_bytes = WARNING_THRESHOLD_PCT * BytesPerPercent
       \/ /\ \E n \in SeedCounts : gps_data = SeedData(n)
          /\ other_bytes = 0

NextPurge == Governor \/ LoopAgain

\* the monitoring task is an asyncio task of its own: it is always scheduled
\* again, and without storage failures each of its awaits returns
SpecPurge == InitPurge /\ [][NextPurge]_vars /\ WF_vars(NextPurge)

\* C37: purging makes progress: when nothing is ingested, a database at or
\* above the warning threshold is, after finitely many ticks, below the
\* threshold or its store of GPS records is empty, whatever the record count.
C37_PurgeMakesProgress ==
    <>(~UsageAtLeast(get_db_size(gps_data), WARNING_THRESHOLD_PCT) \/ gps_data = {})

\* ------------------------------------------------------------------------
\* Failures that are not reported as such (SpecFaults, SpecExport)
\* ------------------------------------------------------------------------
\* C35: an ingestion request that is answered with an error (422 or 500) has
\* left no record in storage, whichever step of it failed.
C35_FailureLeavesNoRecord ==
    \A r \in 1..MaxRequests :
        reqs[r].status \in {422, 500} => r \notin Ids(gps_data)

\* C36: a backup reported as created holds every record the store held when
\* the export ran; a failed read of the store is never reported as a backup
\* that was created.
C36_CreatedBackupIsComplete ==
    \A c \in 1..MaxBackups :
        (creates[c].pc = "done" /\ creates[c].returned = "filename") =>
            /\ creates[c].read_ok
            /\ \A f \in backup_dir :
                  f.name = creates[c].name => Len(f.data) = Cardinality(creates[c].seen)

\* C39: every persisted snapshot holds a record count and a size the store
\* had during its tick (with nothing ingested the store only shrinks: never
\* less than it holds now), and a tick that decided not to purge did so on a
\* size the database had: the database is below the warning threshold.
C39_SnapshotReadingsAreReal ==
    /\ \A k \in DOMAIN system_stats :
          /\ system_stats[k].total_gps_records >= get_gps_data_count(gps_data)
          /\ system_stats[k].database_size_bytes >= get_db_size(gps_data)
    /\ (ticks > 0 /\ gov.percentage = 0) =>
          ~UsageAtLeast(get_db_size(gps_data), WARNING_THRESHOLD_PCT)

====
